---------------------------- MODULE Spec2Model ----------------------------
(***************************************************************************)
(* A state-machine model of the Rodomo NES emulator core: the byte store   *)
(* (ram.rs), the address-space controller (asc.rs), the 6502 CPU (cpu.rs), *)
(* the PPU register file (ppu.rs) and the machine wiring (main.rs).        *)
(*                                                                         *)
(* The Rust code is sequential and mutates its receiver; here every        *)
(* routine is an operator from a machine record m to the machine record    *)
(* after the call.  A routine that also returns a value yields             *)
(* [m |-> machine after, v |-> value].  A panic is recorded in m.fault;    *)
(* once set, every later routine leaves the machine as it is, so m is the  *)
(* state at the moment of the panic.                                       *)
(***************************************************************************)
EXTENDS Integers, Sequences, FiniteSets, TLC

VARIABLES
    cpu,              \* the Cpu struct
    ram,              \* main-bus Ram device (HashMap<u16, u8>)
    ppu,              \* the Ppu struct without its memory and GL handles
    pattern_tables,   \* Ram behind 0x0000..0x1fff of the PPU's own Asc
    nametables,       \* Ram behind 0x2000..0x3eff of the PPU's own Asc
    pallettes,        \* Ram behind 0x3f00..0x3fff of the PPU's own Asc
    fault,            \* "none", or the panic that ended the process
    last,             \* observation: the last operation, its argument, result and pre-state
    prev,             \* observation: the operation before the last one
    hist              \* observation: counters and call history of the scenario

vars == <<cpu, ram, ppu, pattern_tables, nametables, pallettes, fault, last, prev, hist>>

Byte == 0..255
Word == 0..65535

---------------------------------------------------------------------------
(* Fixed-width arithmetic on u8 and u16.                                   *)

RECURSIVE BitAnd(_, _)
BitAnd(x, y) ==
    IF x = 0 \/ y = 0 THEN 0
    ELSE (x % 2) * (y % 2) + 2 * BitAnd(x \div 2, y \div 2)

RECURSIVE BitOr(_, _)
BitOr(x, y) ==
    IF x = 0 THEN y
    ELSE IF y = 0 THEN x
    ELSE (IF x % 2 = 1 \/ y % 2 = 1 THEN 1 ELSE 0) + 2 * BitOr(x \div 2, y \div 2)

RECURSIVE BitXor(_, _)
BitXor(x, y) ==
    IF x = 0 THEN y
    ELSE IF y = 0 THEN x
    ELSE ((x + y) % 2) + 2 * BitXor(x \div 2, y \div 2)

\* !v on a u8
BitNot8(v) == 255 - v

\* bit n of v
BitAt(v, n) == (v \div (2 ^ n)) % 2

\* bool as u8
B2N(b) == IF b THEN 1 ELSE 0

\* (v as i8) as i16, as a mathematical integer
AsI8(v) == IF (v % 256) >= 128 THEN (v % 256) - 256 ELSE (v % 256)

---------------------------------------------------------------------------
(* Panics.                                                                 *)

Ok(m) == m.fault = "none"

Panic(m, why) == IF Ok(m) THEN [m EXCEPT !.fault = why] ELSE m

Ret(m, v) == [m |-> m, v |-> v]

\* `x += n` on a u16: the dev profile checks the overflow and panics, the
\* release profile wraps.
CheckedOverflow(m, sum) == sum > 65535 /\ m.overflow_checks

---------------------------------------------------------------------------
(* ram.rs: Ram                                                             *)

\* Ram::create (and #[derive(Default)]): an empty map
RamCreate == <<>>

\* Ram::write: self.memory.insert(addr, value)
RamWrite(mem, addr, value) ==
    [k \in (DOMAIN mem) \cup {addr} |-> IF k = addr THEN value ELSE mem[k]]

\* Ram::read: self.memory[&addr]; indexing a HashMap by a missing key panics
RamHas(mem, addr) == addr \in DOMAIN mem

RamRead(mem, addr) == mem[addr]

---------------------------------------------------------------------------
(* asc.rs: Asc, and the two address spaces built from it.                  *)

RamDevices == {"ram", "pattern_tables", "nametables", "pallettes"}

\* Machine::new: the devices registered on the CPU's bus
MainDevice(addr) ==
    IF addr <= 2047 THEN "ram"                       \* 0x0000..=0x07ff
    ELSE IF addr >= 8192 /\ addr <= 8199 THEN "ppu"  \* 0x2000..=0x2007
    ELSE IF addr = 16404 THEN "ppu"                  \* 0x4014
    ELSE IF addr >= 16416 THEN "ram"                 \* 0x4020..=0xffff
    ELSE "none"

\* the mirror masks of the CPU's bus: the PPU registers answer to 0..7 and
\* to 0x4014 (Ppu::read / Ppu::write), everything else is not mirrored
MainMask(addr) ==
    IF addr >= 8192 /\ addr <= 8199 THEN 7 ELSE 65535

\* Ppu::new: the devices registered on the PPU's own bus
PpuBusDevice(addr) ==
    IF addr <= 8191 THEN "pattern_tables"            \* 0x0000..=0x1fff
    ELSE IF addr <= 16127 THEN "nametables"          \* 0x2000..=0x3eff
    ELSE IF addr <= 16383 THEN "pallettes"           \* 0x3f00..=0x3fff
    ELSE "none"

\* Ppu::new: the mirror masks; the four later register_device calls
\* overwrite the range's entry for 0x3f10, 0x3f14, 0x3f18, 0x3f1c
PpuBusMask(addr) ==
    IF addr <= 8191 THEN 65535
    ELSE IF addr <= 16127 THEN 4095
    ELSE IF addr \in {16144, 16148, 16152, 16156} THEN 15
    ELSE 31

DeviceOf(bus, addr) == IF bus = "main" THEN MainDevice(addr) ELSE PpuBusDevice(addr)

MaskOf(bus, addr) == IF bus = "main" THEN MainMask(addr) ELSE PpuBusMask(addr)

\* a bus that hands the raw address to the device
Mirrored_unmasked(bus, addr) == addr

\* the address handed to the device: addr &= mask when a mask is registered
Mirrored(bus, addr) ==
    IF DeviceOf(bus, addr) = "none" THEN addr ELSE BitAnd(addr, MaskOf(bus, addr))

\* one bus access, as the observation log records it
Access(kind, bus, addr, value) == [kind |-> kind, bus |-> bus, addr |-> addr, value |-> value]

Logged(m, kind, bus, addr, value) ==
    [m EXCEPT !.log = Append(@, Access(kind, bus, addr, value))]

---------------------------------------------------------------------------
(* ppu.rs: the register file, and asc.rs: Asc::read / Asc::write.  The     *)
(* CPU's bus dispatches to the Ppu, whose data port dispatches to the      *)
(* PPU's own bus, so the four routines are defined together.               *)
(*                                                                         *)
(* A routine of several statements is written as a chain of local          *)
(* operators, one per statement: with_x(.., x) is the rest of the routine  *)
(* once the statement computing x has run.  The chain starts at IN and is  *)
(* read upwards; every intermediate machine is computed once.              *)

\* Ppu::new
PpuNew ==
    [ control |-> 0, mask |-> 0, status |-> 0, oam_addr |-> 0, oam_data |-> 0,
      scroll |-> 0, addr |-> 0, oam_dma |-> 0,
      nametable_base |-> 0,
      vram_increment |-> "Down",          \* #[default] Down
      sprite_table_addr |-> 0,
      background_table_addr |-> 0,
      sprite_size |-> "Size8x8",
      job |-> "Read",
      nmi |-> FALSE,
      vblank |-> FALSE,
      first_byte |-> FALSE ]

\* the byte address of pattern-table tile number index: Ppu::precal_chars
\* reads tile i from addr + 16 * i, and Ppu::draw draws tile number
\* (nametable byte + background_table_addr)
TileAddress(index) == 16 * index

\* a control register that takes the sprite base from bit 4 and the
\* background base from bit 3
PpuWriteControl_bases_swapped(p, value) ==
    [p EXCEPT
        !.control = value,
        !.nametable_base = 8192 + 1024 * BitAnd(value, 3),
        !.vram_increment = IF BitAt(value, 2) = 0 THEN "Across" ELSE "Down",
        !.sprite_table_addr = IF BitAt(value, 4) = 0 THEN 0 ELSE 4096,
        !.background_table_addr = IF BitAt(value, 3) = 0 THEN 0 ELSE 256,
        !.sprite_size = IF BitAt(value, 5) = 0 THEN "Size8x8" ELSE "Size8x16",
        !.job = IF BitAt(value, 6) = 0 THEN "Read" ELSE "Output",
        !.nmi = BitAt(value, 7) # 0]

\* a control register whose write also restarts the address latch
PpuWriteControl_restarts_latch(p, value) ==
    [p EXCEPT
        !.control = value,
        !.nametable_base = 8192 + 1024 * BitAnd(value, 3),
        !.vram_increment = IF BitAt(value, 2) = 0 THEN "Across" ELSE "Down",
        !.sprite_table_addr = IF BitAt(value, 3) = 0 THEN 0 ELSE 4096,
        !.background_table_addr = IF BitAt(value, 4) = 0 THEN 0 ELSE 256,
        !.sprite_size = IF BitAt(value, 5) = 0 THEN "Size8x8" ELSE "Size8x16",
        !.job = IF BitAt(value, 6) = 0 THEN "Read" ELSE "Output",
        !.nmi = BitAt(value, 7) # 0,
        !.first_byte = FALSE]

\* the control-register arm of Ppu::write
PpuWriteControl(p, value) ==
    [p EXCEPT
        !.control = value,
        !.nametable_base = 8192 + 1024 * BitAnd(value, 3),
        !.vram_increment = IF BitAt(value, 2) = 0 THEN "Across" ELSE "Down",
        !.sprite_table_addr = IF BitAt(value, 3) = 0 THEN 0 ELSE 4096,
        !.background_table_addr = IF BitAt(value, 4) = 0 THEN 0 ELSE 256,
        !.sprite_size = IF BitAt(value, 5) = 0 THEN "Size8x8" ELSE "Size8x16",
        !.job = IF BitAt(value, 6) = 0 THEN "Read" ELSE "Output",
        !.nmi = BitAt(value, 7) # 0]

\* an address port that takes the low byte first
PpuWriteAddr_low_first(p, value) ==
    [p EXCEPT
        !.addr = IF ~p.first_byte THEN value ELSE BitOr(p.addr, value * 256),
        !.first_byte = ~p.first_byte]

\* the address-port arm of Ppu::write
PpuWriteAddr(p, value) ==
    [p EXCEPT
        !.addr = IF ~p.first_byte THEN value * 256 ELSE BitOr(p.addr, value),
        !.first_byte = ~p.first_byte]

\* a data port that always steps by one
VramStep_always_one(p) == 1

\* the amount the data port adds to self.addr
VramStep(p) == IF p.vram_increment = "Across" THEN 1 ELSE 32

\* self.addr += step, on a u16
PpuAdvance(m) ==
    LET sum == m.ppu.addr + VramStep(m.ppu) IN
    IF ~Ok(m) THEN m
    ELSE IF CheckedOverflow(m, sum) THEN Panic(m, "overflow")
    ELSE [m EXCEPT !.ppu.addr = sum % 65536]

RECURSIVE AscWrite(_, _, _, _)
RECURSIVE AscRead(_, _, _)
RECURSIVE PpuWrite(_, _, _)
RECURSIVE PpuRead(_, _)

\* impl MemoryMapped for Ppu: write
PpuWrite(m, addr, value) ==
    IF ~Ok(m) THEN m
    ELSE IF addr = 0 THEN [m EXCEPT !.ppu = PpuWriteControl(@, value)]
    ELSE IF addr = 1 THEN [m EXCEPT !.ppu.mask = value]
    ELSE IF addr = 2 THEN m
    ELSE IF addr = 3 THEN [m EXCEPT !.ppu.oam_addr = value]
    ELSE IF addr = 4 THEN [m EXCEPT !.ppu.oam_data = value]
    ELSE IF addr = 5 THEN [m EXCEPT !.ppu.scroll = value]
    ELSE IF addr = 6 THEN [m EXCEPT !.ppu = PpuWriteAddr(@, value)]
    ELSE IF addr = 7 THEN PpuAdvance(AscWrite(m, "ppu", m.ppu.addr, value))
    ELSE IF addr = 16404 THEN [m EXCEPT !.ppu.oam_dma = value]
    ELSE Panic(m, "ppu_address")

\* a Ppu whose status read leaves the vblank bit set
PpuRead_keeps_vblank(m, addr) ==
    IF ~Ok(m) THEN Ret(m, 0)
    ELSE IF addr = 0 THEN Ret(m, m.ppu.control)
    ELSE IF addr = 1 THEN Ret(m, m.ppu.mask)
    ELSE IF addr = 2 THEN
        Ret([m EXCEPT !.ppu.first_byte = FALSE], m.ppu.status)
    ELSE IF addr = 3 THEN Ret(m, m.ppu.oam_addr)
    ELSE IF addr = 4 THEN Ret(m, m.ppu.oam_data)
    ELSE IF addr = 5 THEN Ret(m, m.ppu.scroll)
    ELSE IF addr = 6 THEN Ret(m, m.ppu.addr % 256)
    ELSE IF addr = 7 THEN
        LET with_r(r) == Ret(PpuAdvance(r.m), r.v)
        IN  with_r(AscRead(m, "ppu", m.ppu.addr))
    ELSE IF addr = 16404 THEN Ret(m, m.ppu.oam_dma)
    ELSE Ret(Panic(m, "ppu_address"), 0)

\* impl MemoryMapped for Ppu: read
PpuRead(m, addr) ==
    IF ~Ok(m) THEN Ret(m, 0)
    ELSE IF addr = 0 THEN Ret(m, m.ppu.control)
    ELSE IF addr = 1 THEN Ret(m, m.ppu.mask)
    ELSE IF addr = 2 THEN
        Ret([m EXCEPT !.ppu.status = @ - 128 * BitAt(@, 7),
                      !.ppu.first_byte = FALSE],
            m.ppu.status)
    ELSE IF addr = 3 THEN Ret(m, m.ppu.oam_addr)
    ELSE IF addr = 4 THEN Ret(m, m.ppu.oam_data)
    ELSE IF addr = 5 THEN Ret(m, m.ppu.scroll)
    ELSE IF addr = 6 THEN Ret(m, m.ppu.addr % 256)
    ELSE IF addr = 7 THEN
        LET with_r(r) == Ret(PpuAdvance(r.m), r.v)
        IN  with_r(AscRead(m, "ppu", m.ppu.addr))
    ELSE IF addr = 16404 THEN Ret(m, m.ppu.oam_dma)
    ELSE Ret(Panic(m, "ppu_address"), 0)

\* impl MemoryMapped for Asc: write
AscWrite(m, bus, addr, value) ==
    LET with_ml(dev, a, ml) ==
            IF ~Ok(m) THEN m
            ELSE IF dev = "none" THEN ml                       \* warn, drop the write
            ELSE IF dev = "ppu" THEN PpuWrite(ml, a, value)
            ELSE [ml EXCEPT !.dev[dev] = RamWrite(@, a, value)]
        with_a(dev, a) == with_ml(dev, a, Logged(m, "w", bus, addr, value))
        with_dev(dev) == with_a(dev, Mirrored(bus, addr))
    IN  with_dev(DeviceOf(bus, addr))

\* a bus whose reads abort on a miss instead of answering 0
AscRead_miss_aborts(m, bus, addr) ==
    LET with_a(dev, a) ==
            IF ~Ok(m) THEN Ret(m, 0)
            ELSE IF dev = "none" THEN Ret(Panic(Logged(m, "r", bus, addr, 0), "no_device"), 0)
            ELSE IF dev = "ppu" THEN
                LET with_r(r) == Ret(Logged(r.m, "r", bus, addr, r.v), r.v)
                IN  with_r(PpuRead(m, a))
            ELSE IF RamHas(m.dev[dev], a) THEN
                Ret(Logged(m, "r", bus, addr, RamRead(m.dev[dev], a)), RamRead(m.dev[dev], a))
            ELSE Ret(Panic(Logged(m, "r", bus, addr, 0), "ram_missing_key"), 0)
        with_dev(dev) == with_a(dev, Mirrored(bus, addr))
    IN  with_dev(DeviceOf(bus, addr))

\* impl MemoryMapped for Asc: read
AscRead(m, bus, addr) ==
    LET with_a(dev, a) ==
            IF ~Ok(m) THEN Ret(m, 0)
            ELSE IF dev = "none" THEN Ret(Logged(m, "r", bus, addr, 0), 0)   \* warn, 0
            ELSE IF dev = "ppu" THEN
                LET with_r(r) == Ret(Logged(r.m, "r", bus, addr, r.v), r.v)
                IN  with_r(PpuRead(m, a))
            ELSE IF RamHas(m.dev[dev], a) THEN
                Ret(Logged(m, "r", bus, addr, RamRead(m.dev[dev], a)), RamRead(m.dev[dev], a))
            ELSE Ret(Panic(Logged(m, "r", bus, addr, 0), "ram_missing_key"), 0)
        with_dev(dev) == with_a(dev, Mirrored(bus, addr))
    IN  with_dev(DeviceOf(bus, addr))

\* Ppu::reset_vblank
reset_vblank(p) == [p EXCEPT !.vblank = FALSE, !.status = @ - 128 * BitAt(@, 7)]

\* a set_vblank that raises the status bit only
set_vblank_status_only(p) == [p EXCEPT !.status = BitOr(@, 128)]

\* Ppu::set_vblank
set_vblank(p) == [p EXCEPT !.vblank = TRUE, !.status = BitOr(@, 128)]

\* a should_nmi that tests the vblank bit of the status register
should_nmi_from_status(p) == BitAt(p.status, 7) # 0 /\ p.nmi

\* Ppu::should_nmi
should_nmi(p) == p.vblank /\ p.nmi

---------------------------------------------------------------------------
(* cpu.rs: the Cpu struct, its helpers and the addressing modes.           *)

\* Cpu::new: sp = 0xff, everything else Default::default()
CpuNew ==
    [ sp |-> 255, pc |-> 0, a |-> 0, x |-> 0, y |-> 0,
      carry_flag |-> FALSE, zero_flag |-> FALSE, interrupt_flag |-> FALSE,
      decimal_flag |-> FALSE, break_cmd_flag |-> FALSE, reserved_flag |-> FALSE,
      overflow_flag |-> FALSE, negative_flag |-> FALSE,
      cycles |-> 0 ]

\* assignments to fields of the Cpu: upd is a record of the new values
SetCpu(m, upd) ==
    IF ~Ok(m) THEN m
    ELSE [m EXCEPT !.cpu = [f \in DOMAIN m.cpu |->
                              IF f \in DOMAIN upd THEN upd[f] ELSE m.cpu[f]]]

\* flags that report a result's bit 7 as its zero flag
ZN_swapped(v) == [zero_flag |-> BitAt(v, 7) # 0, negative_flag |-> v = 0]

\* the zero and negative flags of a result
ZN(v) == [zero_flag |-> v = 0, negative_flag |-> BitAt(v, 7) # 0]

\* cpu.pc += n (checked in the dev profile)
add_pc(m, n) ==
    LET sum == m.cpu.pc + n IN
    IF ~Ok(m) THEN m
    ELSE IF CheckedOverflow(m, sum) THEN Panic(m, "overflow")
    ELSE SetCpu(m, [pc |-> sum % 65536])

\* cpu.pc = cpu.pc.wrapping_add(1)
wrapping_add_pc(m) == SetCpu(m, [pc |-> (m.cpu.pc + 1) % 65536])

\* a fused opcode that keeps the PC advance of its first half
wrapping_sub_pc_skipped(m) == m

\* cpu.pc = cpu.pc.wrapping_sub(1)
wrapping_sub_pc(m) == SetCpu(m, [pc |-> (m.cpu.pc + 65535) % 65536])

\* a bus read of the CPU
Rd(m, addr) == AscRead(m, "main", addr)

\* a bus write of the CPU
Wr(m, addr, value) == AscWrite(m, "main", addr, value)

\* Cpu::imm
imm(m) ==
    LET with_m1(m1) == Ret(m1, m1.cpu.pc)
    IN  with_m1(add_pc(m, 1))

\* Cpu::zp
zp(m) ==
    LET with_m1(m1) == Rd(m1, m1.cpu.pc)
    IN  with_m1(add_pc(m, 1))

\* Cpu::zpx
zpx(m) ==
    LET with_r(r) ==
            Ret(r.m, (r.v + m.cpu.x) % 256)
        with_m1(m1) == with_r(Rd(m1, m1.cpu.pc))
    IN  with_m1(add_pc(m, 1))

\* Cpu::zpy
zpy(m) ==
    LET with_r(r) ==
            Ret(r.m, (r.v + m.cpu.y) % 256)
        with_m1(m1) == with_r(Rd(m1, m1.cpu.pc))
    IN  with_m1(add_pc(m, 1))

\* Cpu::abs
abs(m) ==
    LET with_hi(lo, hi) ==
            Ret(hi.m, hi.v * 256 + lo.v)
        with_m2(lo, m2) == with_hi(lo, Rd(m2, m2.cpu.pc))
        with_lo(lo) == with_m2(lo, add_pc(lo.m, 1))
        with_m1(m1) == with_lo(Rd(m1, m1.cpu.pc))
    IN  with_m1(add_pc(m, 1))

\* Cpu::abx
abx(m) ==
    LET with_r(r) == Ret(r.m, (r.v + m.cpu.x) % 65536)
    IN  with_r(abs(m))

\* Cpu::aby
aby(m) ==
    LET with_r(r) == Ret(r.m, (r.v + m.cpu.y) % 65536)
    IN  with_r(abs(m))

\* Cpu::inx: the high byte is read first, from addr + 1 (not wrapped to the
\* zero page)
inx(m) ==
    LET with_lo(hi, lo) ==
            Ret(lo.m, hi.v * 256 + lo.v)
        with_hi(addr, hi) == with_lo(hi, Rd(hi.m, addr))
        with_addr(op, addr) == with_hi(addr, Rd(op.m, addr + 1))
        with_op(op) == with_addr(op, (op.v + m.cpu.x) % 256)
        with_m1(m1) == with_op(Rd(m1, m1.cpu.pc))
    IN  with_m1(add_pc(m, 1))

\* Cpu::iny
iny(m) ==
    LET with_lo(hi, lo) ==
            Ret(lo.m, (hi.v * 256 + lo.v + m.cpu.y) % 65536)
        with_hi(op, hi) == with_lo(hi, Rd(hi.m, op.v))
        with_op(op) == with_hi(op, Rd(op.m, (op.v + 1) % 65536))
        with_m1(m1) == with_op(Rd(m1, m1.cpu.pc))
    IN  with_m1(add_pc(m, 1))

\* Cpu::ind: addr + 1 is a checked u16 addition
ind(m) ==
    LET with_lo(hi, lo) ==
            Ret(lo.m, hi.v * 256 + lo.v)
        with_hi(p, hi) == with_lo(hi, Rd(hi.m, p.v))
        with_mo(p, mo) == with_hi(p, Rd(mo, (p.v + 1) % 65536))
        with_p(p) ==
            with_mo(p, IF Ok(p.m) /\ CheckedOverflow(p.m, p.v + 1) THEN Panic(p.m, "overflow") ELSE p.m)
    IN  with_p(abs(m))

\* push with a saturating decrement of sp
push_saturating(m, value) ==
    LET with_m1(m1) ==
            SetCpu(m1, [sp |-> IF m.cpu.sp = 0 THEN 0 ELSE m.cpu.sp - 1])
    IN  with_m1(Wr(m, 256 + m.cpu.sp, value))

\* Cpu::push
push(m, value) ==
    LET with_m1(m1) ==
            SetCpu(m1, [sp |-> (m.cpu.sp + 255) % 256])
    IN  with_m1(Wr(m, 256 + m.cpu.sp, value))

\* Cpu::pop
pop(m) ==
    LET with_m1(m1) ==
            Rd(m1, 256 + m1.cpu.sp)
    IN  with_m1(SetCpu(m, [sp |-> (m.cpu.sp + 1) % 256]))

\* push_long pushing the low byte first
push_long_low_first(m, value) ==
    push(push(m, value % 256), (value \div 256) % 256)

\* Cpu::push_long
push_long(m, value) ==
    push(push(m, (value \div 256) % 256), value % 256)

\* Cpu::pop_long
pop_long(m) ==
    LET with_hi(lo, hi) ==
            Ret(hi.m, BitOr(lo.v, hi.v * 256))
        with_lo(lo) == with_hi(lo, pop(lo.m))
    IN  with_lo(pop(m))

\* Cpu::status_to_word
status_to_word(c) ==
      B2N(c.carry_flag)
    + 2 * B2N(c.zero_flag)
    + 4 * B2N(c.interrupt_flag)
    + 8 * B2N(c.decimal_flag)
    + 16 * B2N(c.break_cmd_flag)
    + 32 * B2N(c.reserved_flag)
    + 64 * B2N(c.overflow_flag)
    + 128 * B2N(c.negative_flag)

\* an unpacking that takes the break flag from the reserved bit
word_to_status_break_from_reserved(m, word) ==
    SetCpu(m, [ carry_flag     |-> BitAt(word, 0) # 0,
                zero_flag      |-> BitAt(word, 1) # 0,
                interrupt_flag |-> BitAt(word, 2) # 0,
                decimal_flag   |-> BitAt(word, 3) # 0,
                break_cmd_flag |-> BitAt(word, 5) # 0,
                reserved_flag  |-> BitAt(word, 5) # 0,
                overflow_flag  |-> BitAt(word, 6) # 0,
                negative_flag  |-> BitAt(word, 7) # 0 ])

\* Cpu::word_to_status
word_to_status(m, word) ==
    SetCpu(m, [ carry_flag     |-> BitAt(word, 0) # 0,
                zero_flag      |-> BitAt(word, 1) # 0,
                interrupt_flag |-> BitAt(word, 2) # 0,
                decimal_flag   |-> BitAt(word, 3) # 0,
                break_cmd_flag |-> BitAt(word, 4) # 0,
                reserved_flag  |-> BitAt(word, 5) # 0,
                overflow_flag  |-> BitAt(word, 6) # 0,
                negative_flag  |-> BitAt(word, 7) # 0 ])

\* Cpu::shift_left
shift_left(m, value) ==
    LET with_v(v) ==
            Ret(add_pc(SetCpu(m, [carry_flag |-> BitAt(value, 7) # 0] @@ ZN(v)), 1), v)
    IN  with_v((value * 2) % 256)

\* Cpu::shift_right
shift_right(m, value) ==
    LET with_v(v) ==
            Ret(add_pc(SetCpu(m, [carry_flag |-> BitAt(value, 0) # 0] @@ ZN(v)), 1), v)
    IN  with_v(value \div 2)

\* Cpu::rotate_left
rotate_left(m, value) ==
    LET with_v(v) ==
            Ret(add_pc(SetCpu(m, [carry_flag |-> BitAt(value, 7) # 0] @@ ZN(v)), 1), v)
    IN  with_v(BitOr((value * 2) % 256, B2N(m.cpu.carry_flag)))

\* a rotate_right that takes the carry from the rotated value
rotate_right_carry_after(m, value) ==
    LET with_v(v) ==
            Ret(add_pc(SetCpu(m, [carry_flag |-> BitAt(v, 0) # 0] @@ ZN(v)), 1), v)
    IN  with_v(BitOr(value \div 2, 128 * B2N(m.cpu.carry_flag)))

\* Cpu::rotate_right
rotate_right(m, value) ==
    LET with_v(v) ==
            Ret(add_pc(SetCpu(m, [carry_flag |-> BitAt(value, 0) # 0] @@ ZN(v)), 1), v)
    IN  with_v(BitOr(value \div 2, 128 * B2N(m.cpu.carry_flag)))

\* add_with_carry taking the carry from the first addition alone
add_with_carry_first_stage(m, value) ==
    LET with_t2(a, t1, t2) ==
            SetCpu(m, [ carry_flag    |-> t1 < a,
                        overflow_flag |->
                            BitAnd(BitNot8(BitXor(a, value)), BitXor(a, t2)) \div 128 # 0,
                        a |-> t2 ] @@ ZN(t2))
        with_t1(a, t1) == with_t2(a, t1, (t1 + B2N(m.cpu.carry_flag)) % 256)
        with_a(a) == with_t1(a, (a + value) % 256)
    IN  with_a(m.cpu.a)

\* Cpu::add_with_carry
add_with_carry(m, value) ==
    LET with_t2(a, t1, c, t2) ==
            SetCpu(m, [ carry_flag    |-> c \/ (t2 < t1),
                        overflow_flag |->
                            BitAnd(BitNot8(BitXor(a, value)), BitXor(a, t2)) \div 128 # 0,
                        a |-> t2 ] @@ ZN(t2))
        with_c(a, t1, c) == with_t2(a, t1, c, (t1 + B2N(m.cpu.carry_flag)) % 256)
        with_t1(a, t1) == with_c(a, t1, t1 < a)
        with_a(a) == with_t1(a, (a + value) % 256)
    IN  with_a(m.cpu.a)

---------------------------------------------------------------------------
(* cpu.rs: the instruction closures of impl_instr!.  Each takes the        *)
(* machine and the address its addressing mode resolved.                   *)

\* impl_instr!(Nop, ...)
Nop(m, addr) == add_pc(m, 1)

\* impl_instr!(Lda, ...)
Lda(m, addr) ==
    LET with_r(r) ==
            add_pc(SetCpu(r.m, [a |-> r.v] @@ ZN(r.v)), 1)
    IN  with_r(Rd(m, addr))

\* impl_instr!(Ldx, ...)
Ldx(m, addr) ==
    LET with_r(r) ==
            add_pc(SetCpu(r.m, [x |-> r.v] @@ ZN(r.v)), 1)
    IN  with_r(Rd(m, addr))

\* impl_instr!(Ldy, ...)
Ldy(m, addr) ==
    LET with_r(r) ==
            add_pc(SetCpu(r.m, [y |-> r.v] @@ ZN(r.v)), 1)
    IN  with_r(Rd(m, addr))

\* impl_instr!(Lax, ...)
Lax(m, addr) ==
    LET with_r(r) ==
            add_pc(SetCpu(r.m, [x |-> r.v, a |-> r.v] @@ ZN(r.v)), 1)
    IN  with_r(Rd(m, addr))

\* impl_instr!(Sta, ...)
Sta(m, addr) == add_pc(Wr(m, addr, m.cpu.a), 1)

\* impl_instr!(Stx, ...)
Stx(m, addr) == add_pc(Wr(m, addr, m.cpu.x), 1)

\* impl_instr!(Sty, ...)
Sty(m, addr) == add_pc(Wr(m, addr, m.cpu.y), 1)

\* impl_instr!(Sax, ...)
Sax(m, addr) == add_pc(Wr(m, addr, BitAnd(m.cpu.a, m.cpu.x)), 1)

\* impl_instr!(Tax, ...)
Tax(m, addr) == add_pc(SetCpu(m, [x |-> m.cpu.a] @@ ZN(m.cpu.a)), 1)

\* impl_instr!(Tay, ...)
Tay(m, addr) == add_pc(SetCpu(m, [y |-> m.cpu.a] @@ ZN(m.cpu.a)), 1)

\* impl_instr!(Txa, ...)
Txa(m, addr) == add_pc(SetCpu(m, [a |-> m.cpu.x] @@ ZN(m.cpu.x)), 1)

\* impl_instr!(Tya, ...)
Tya(m, addr) == add_pc(SetCpu(m, [a |-> m.cpu.y] @@ ZN(m.cpu.y)), 1)

\* impl_instr!(Tsx, ...)
Tsx(m, addr) == add_pc(SetCpu(m, [x |-> m.cpu.sp] @@ ZN(m.cpu.sp)), 1)

\* impl_instr!(Txs, ...)
Txs(m, addr) == add_pc(SetCpu(m, [sp |-> m.cpu.x]), 1)

\* impl_instr!(Pha, ...)
Pha(m, addr) == add_pc(push(m, m.cpu.a), 1)

\* impl_instr!(Php, ...): the reserved and break flags are set in the Cpu
\* itself before the status word is built
Php(m, addr) ==
    LET with_m1(m1) ==
            add_pc(push(m1, status_to_word(m1.cpu)), 1)
    IN  with_m1(SetCpu(m, [reserved_flag |-> TRUE, break_cmd_flag |-> TRUE]))

\* impl_instr!(Pla, ...)
Pla(m, addr) ==
    LET with_r(r) ==
            add_pc(SetCpu(r.m, [a |-> r.v] @@ ZN(r.v)), 1)
    IN  with_r(pop(m))

\* impl_instr!(Plp, ...)
Plp(m, addr) ==
    LET with_r(r) ==
            add_pc(word_to_status(r.m, r.v), 1)
    IN  with_r(pop(m))

\* impl_instr!(And, ...)
And(m, addr) ==
    LET with_v(r, v) ==
            add_pc(SetCpu(r.m, [a |-> v] @@ ZN(v)), 1)
        with_r(r) == with_v(r, BitAnd(m.cpu.a, r.v))
    IN  with_r(Rd(m, addr))

\* impl_instr!(Eor, ...)
Eor(m, addr) ==
    LET with_v(r, v) ==
            add_pc(SetCpu(r.m, [a |-> v] @@ ZN(v)), 1)
        with_r(r) == with_v(r, BitXor(m.cpu.a, r.v))
    IN  with_r(Rd(m, addr))

\* impl_instr!(Ora, ...)
Ora(m, addr) ==
    LET with_v(r, v) ==
            add_pc(SetCpu(r.m, [a |-> v] @@ ZN(v)), 1)
        with_r(r) == with_v(r, BitOr(m.cpu.a, r.v))
    IN  with_r(Rd(m, addr))

\* impl_instr!(Bit, ...)
Bit(m, addr) ==
    LET with_r(r) ==
            add_pc(SetCpu(r.m, [ zero_flag     |-> BitAnd(m.cpu.a, r.v) = 0,
                                 overflow_flag |-> BitAt(r.v, 6) # 0,
                                 negative_flag |-> BitAt(r.v, 7) # 0 ]), 1)
    IN  with_r(Rd(m, addr))

\* impl_instr!(Jmp, ...)
Jmp(m, addr) == SetCpu(m, [pc |-> addr])

\* impl_instr!(Jsr, ...)
Jsr(m, addr) == SetCpu(push_long(m, m.cpu.pc), [pc |-> addr])

\* impl_instr!(Rts, ...)
Rts(m, addr) ==
    LET with_r(r) ==
            SetCpu(r.m, [pc |-> (r.v + 1) % 65536])
    IN  with_r(pop_long(m))

\* the body shared by the eight branch closures:
\* if cond { pc = pc.wrapping_add_signed((addr as i8) as i16) }  pc += 1
branch_if(m, addr, cond) ==
    add_pc(IF cond
           THEN SetCpu(m, [pc |-> (m.cpu.pc + AsI8(addr) + 65536) % 65536])
           ELSE m,
           1)

\* impl_instr!(Bne, ...)
Bne(m, addr) == branch_if(m, addr, ~m.cpu.zero_flag)

\* impl_instr!(Beq, ...)
Beq(m, addr) == branch_if(m, addr, m.cpu.zero_flag)

\* impl_instr!(Bpl, ...)
Bpl(m, addr) == branch_if(m, addr, ~m.cpu.negative_flag)

\* impl_instr!(Bcc, ...)
Bcc(m, addr) == branch_if(m, addr, ~m.cpu.carry_flag)

\* impl_instr!(Bcs, ...)
Bcs(m, addr) == branch_if(m, addr, m.cpu.carry_flag)

\* impl_instr!(Bmi, ...)
Bmi(m, addr) == branch_if(m, addr, m.cpu.negative_flag)

\* impl_instr!(Bvc, ...)
Bvc(m, addr) == branch_if(m, addr, ~m.cpu.overflow_flag)

\* impl_instr!(Bvs, ...)
Bvs(m, addr) == branch_if(m, addr, m.cpu.overflow_flag)

\* impl_instr!(Dex, ...)
Dex(m, addr) ==
    LET with_v(v) ==
            add_pc(SetCpu(m, [x |-> v] @@ ZN(v)), 1)
    IN  with_v((m.cpu.x + 255) % 256)

\* impl_instr!(Dey, ...)
Dey(m, addr) ==
    LET with_v(v) ==
            add_pc(SetCpu(m, [y |-> v] @@ ZN(v)), 1)
    IN  with_v((m.cpu.y + 255) % 256)

\* an INX that counts down
Incx_decrements(m, addr) ==
    LET with_v(v) ==
            add_pc(SetCpu(m, [x |-> v] @@ ZN(v)), 1)
    IN  with_v((m.cpu.x + 255) % 256)

\* impl_instr!(Incx, ...)
Incx(m, addr) ==
    LET with_v(v) ==
            add_pc(SetCpu(m, [x |-> v] @@ ZN(v)), 1)
    IN  with_v((m.cpu.x + 1) % 256)

\* impl_instr!(Incy, ...)
Incy(m, addr) ==
    LET with_v(v) ==
            add_pc(SetCpu(m, [y |-> v] @@ ZN(v)), 1)
    IN  with_v((m.cpu.y + 1) % 256)

\* impl_instr!(Inc, ...): the only closures that advance pc with wrapping_add
Inc(m, addr) ==
    LET with_v(r, v) ==
            wrapping_add_pc(SetCpu(Wr(r.m, addr, v), ZN(v)))
        with_r(r) == with_v(r, (r.v + 1) % 256)
    IN  with_r(Rd(m, addr))

\* impl_instr!(Dec, ...): the only closures that advance pc with wrapping_add
Dec(m, addr) ==
    LET with_v(r, v) ==
            wrapping_add_pc(SetCpu(Wr(r.m, addr, v), ZN(v)))
        with_r(r) == with_v(r, (r.v + 255) % 256)
    IN  with_r(Rd(m, addr))

\* impl_instr!(Asl, ...)
Asl(m, addr) ==
    LET with_r(r) ==
            SetCpu(r.m, [a |-> r.v])
    IN  with_r(shift_left(m, m.cpu.a))

\* impl_instr!(AslAddr, ...)
AslAddr(m, addr) ==
    LET with_r(v, r) ==
            Wr(r.m, addr, r.v)
        with_v(v) == with_r(v, shift_left(v.m, v.v))
    IN  with_v(Rd(m, addr))

\* impl_instr!(Lsr, ...)
Lsr(m, addr) ==
    LET with_r(r) ==
            SetCpu(r.m, [a |-> r.v])
    IN  with_r(shift_right(m, m.cpu.a))

\* impl_instr!(LsrAddr, ...)
LsrAddr(m, addr) ==
    LET with_r(v, r) ==
            Wr(r.m, addr, r.v)
        with_v(v) == with_r(v, shift_right(v.m, v.v))
    IN  with_v(Rd(m, addr))

\* impl_instr!(Rol, ...)
Rol(m, addr) ==
    LET with_r(r) ==
            SetCpu(r.m, [a |-> r.v])
    IN  with_r(rotate_left(m, m.cpu.a))

\* impl_instr!(RolAddr, ...)
RolAddr(m, addr) ==
    LET with_r(v, r) ==
            Wr(r.m, addr, r.v)
        with_v(v) == with_r(v, rotate_left(v.m, v.v))
    IN  with_v(Rd(m, addr))

\* impl_instr!(Ror, ...)
Ror(m, addr) ==
    LET with_r(r) ==
            SetCpu(r.m, [a |-> r.v])
    IN  with_r(rotate_right(m, m.cpu.a))

\* impl_instr!(RorAddr, ...)
RorAddr(m, addr) ==
    LET with_r(v, r) ==
            Wr(r.m, addr, r.v)
        with_v(v) == with_r(v, rotate_right(v.m, v.v))
    IN  with_v(Rd(m, addr))

\* impl_instr!(Clc, ...)
Clc(m, addr) == add_pc(SetCpu(m, [carry_flag |-> FALSE]), 1)

\* impl_instr!(Sec, ...)
Sec(m, addr) == add_pc(SetCpu(m, [carry_flag |-> TRUE]), 1)

\* impl_instr!(Cld, ...)
Cld(m, addr) == add_pc(SetCpu(m, [decimal_flag |-> FALSE]), 1)

\* impl_instr!(Sed, ...)
Sed(m, addr) == add_pc(SetCpu(m, [decimal_flag |-> TRUE]), 1)

\* impl_instr!(Cli, ...)
Cli(m, addr) == add_pc(SetCpu(m, [interrupt_flag |-> FALSE]), 1)

\* impl_instr!(Sei, ...)
Sei(m, addr) == add_pc(SetCpu(m, [interrupt_flag |-> TRUE]), 1)

\* impl_instr!(Clv, ...)
Clv(m, addr) == add_pc(SetCpu(m, [overflow_flag |-> FALSE]), 1)

\* impl_instr!(Cmp, ...)
Cmp(m, addr) ==
    LET with_res(r, res) ==
            add_pc(SetCpu(r.m, [ carry_flag    |-> m.cpu.a >= r.v,
                                 zero_flag     |-> m.cpu.a = r.v,
                                 negative_flag |-> BitAt(res, 7) # 0 ]), 1)
        with_r(r) == with_res(r, (m.cpu.a + 256 - r.v) % 256)
    IN  with_r(Rd(m, addr))

\* a CPX that compares the accumulator
Cpx_compares_a(m, addr) == Cmp(m, addr)

\* impl_instr!(Cpx, ...)
Cpx(m, addr) ==
    LET with_res(r, res) ==
            add_pc(SetCpu(r.m, [ carry_flag    |-> m.cpu.x >= r.v,
                                 zero_flag     |-> m.cpu.x = r.v,
                                 negative_flag |-> BitAt(res, 7) # 0 ]), 1)
        with_r(r) == with_res(r, (m.cpu.x + 256 - r.v) % 256)
    IN  with_r(Rd(m, addr))

\* impl_instr!(Cpy, ...)
Cpy(m, addr) ==
    LET with_res(r, res) ==
            add_pc(SetCpu(r.m, [ carry_flag    |-> m.cpu.y >= r.v,
                                 zero_flag     |-> m.cpu.y = r.v,
                                 negative_flag |-> BitAt(res, 7) # 0 ]), 1)
        with_r(r) == with_res(r, (m.cpu.y + 256 - r.v) % 256)
    IN  with_r(Rd(m, addr))

\* impl_instr!(Adc, ...)
Adc(m, addr) ==
    LET with_r(r) ==
            add_pc(add_with_carry(r.m, r.v), 1)
    IN  with_r(Rd(m, addr))

\* Sbc negating the operand (two's complement) instead of inverting it
Sbc_negated(m, addr) ==
    LET with_r(r) ==
            add_pc(add_with_carry(r.m, (256 - r.v) % 256), 1)
    IN  with_r(Rd(m, addr))

\* impl_instr!(Sbc, ...)
Sbc(m, addr) ==
    LET with_r(r) ==
            add_pc(add_with_carry(r.m, BitNot8(r.v)), 1)
    IN  with_r(Rd(m, addr))

\* impl_instr!(Brk, ...): cpu.pc + 2 is a checked u16 addition
Brk(m, addr) ==
    LET with_hi(lo, hi) ==
            SetCpu(hi.m, [pc |-> BitOr(lo.v, hi.v * 256), interrupt_flag |-> TRUE])
        with_lo(lo) == with_hi(lo, Rd(lo.m, 65535))
        with_m3(m3) == with_lo(Rd(m3, 65534))
        with_m2(m2) == with_m3(push(m2, status_to_word(m2.cpu)))
        with_m1(m1) == with_m2(SetCpu(m1, [break_cmd_flag |-> TRUE, reserved_flag |-> TRUE]))
        with_m0(m0) == with_m1(push_long(m0, (m.cpu.pc + 2) % 65536))
    IN  with_m0(IF Ok(m) /\ CheckedOverflow(m, m.cpu.pc + 2) THEN Panic(m, "overflow") ELSE m)

\* impl_instr!(Rti, ...)
Rti(m, addr) ==
    LET with_r(r) ==
            SetCpu(r.m, [pc |-> r.v])
        with_w(w) == with_r(pop_long(word_to_status(w.m, w.v)))
    IN  with_w(pop(m))

\* an SLO that ORs the accumulator with the operand before shifting it
Slo_or_before_shift(m, addr) == AslAddr(wrapping_sub_pc(Ora(m, addr)), addr)

\* impl_instr!(Slo, ...)
Slo(m, addr) == Ora(wrapping_sub_pc(AslAddr(m, addr)), addr)

\* impl_instr!(Sre, ...)
Sre(m, addr) == Eor(wrapping_sub_pc(LsrAddr(m, addr)), addr)

\* impl_instr!(Rla, ...)
Rla(m, addr) == And(wrapping_sub_pc(RolAddr(m, addr)), addr)

\* an RRA whose addition takes the carry of before the rotation
Rra_stale_carry(m, addr) ==
    Adc(SetCpu(wrapping_sub_pc(RorAddr(m, addr)), [carry_flag |-> m.cpu.carry_flag]), addr)

\* impl_instr!(Rra, ...)
Rra(m, addr) == Adc(wrapping_sub_pc(RorAddr(m, addr)), addr)

\* impl_instr!(Isc, ...)
Isc(m, addr) == Sbc(wrapping_sub_pc(Inc(m, addr)), addr)

\* impl_instr!(Dcp, ...)
Dcp(m, addr) == Cmp(wrapping_sub_pc(Dec(m, addr)), addr)

---------------------------------------------------------------------------
(* cpu.rs: decode and dispatch.                                            *)

\* run_instruction: opcode -> <<instruction, addressing mode>>; entry op + 1
\* holds opcode op, and <<"none", "none">> marks an opcode with no match arm
OpTable ==
    <<
    <<"Brk", "Implicit">>,                      \* 0x00
    <<"Ora", "IndirectIndexed">>,               \* 0x01
    <<"none", "none">>,                         \* 0x02
    <<"Slo", "IndirectIndexed">>,               \* 0x03
    <<"Nop", "ZeroPage">>,                      \* 0x04
    <<"Ora", "ZeroPage">>,                      \* 0x05
    <<"AslAddr", "ZeroPage">>,                  \* 0x06
    <<"Slo", "ZeroPage">>,                      \* 0x07
    <<"Php", "Implicit">>,                      \* 0x08
    <<"Ora", "Immediate">>,                     \* 0x09
    <<"Asl", "Accumulator">>,                   \* 0x0A
    <<"none", "none">>,                         \* 0x0B
    <<"Nop", "Absolute">>,                      \* 0x0C
    <<"Ora", "Absolute">>,                      \* 0x0D
    <<"AslAddr", "Absolute">>,                  \* 0x0E
    <<"Slo", "Absolute">>,                      \* 0x0F
    <<"Bpl", "Relative">>,                      \* 0x10
    <<"Ora", "IndexedIndirect">>,               \* 0x11
    <<"none", "none">>,                         \* 0x12
    <<"Slo", "IndexedIndirect">>,               \* 0x13
    <<"Nop", "ZeroPageX">>,                     \* 0x14
    <<"Ora", "ZeroPageX">>,                     \* 0x15
    <<"AslAddr", "ZeroPageX">>,                 \* 0x16
    <<"Slo", "ZeroPageX">>,                     \* 0x17
    <<"Clc", "Implicit">>,                      \* 0x18
    <<"Ora", "AbsoluteY">>,                     \* 0x19
    <<"Nop", "Implicit">>,                      \* 0x1A
    <<"Slo", "AbsoluteY">>,                     \* 0x1B
    <<"Nop", "AbsoluteX">>,                     \* 0x1C
    <<"Ora", "AbsoluteX">>,                     \* 0x1D
    <<"AslAddr", "AbsoluteX">>,                 \* 0x1E
    <<"Slo", "AbsoluteX">>,                     \* 0x1F
    <<"Jsr", "Absolute">>,                      \* 0x20
    <<"And", "IndirectIndexed">>,               \* 0x21
    <<"none", "none">>,                         \* 0x22
    <<"Rla", "IndirectIndexed">>,               \* 0x23
    <<"Bit", "ZeroPage">>,                      \* 0x24
    <<"And", "ZeroPage">>,                      \* 0x25
    <<"RolAddr", "ZeroPage">>,                  \* 0x26
    <<"Rla", "ZeroPage">>,                      \* 0x27
    <<"Plp", "Implicit">>,                      \* 0x28
    <<"And", "Immediate">>,                     \* 0x29
    <<"Rol", "Accumulator">>,                   \* 0x2A
    <<"none", "none">>,                         \* 0x2B
    <<"Bit", "Absolute">>,                      \* 0x2C
    <<"And", "Absolute">>,                      \* 0x2D
    <<"RolAddr", "Absolute">>,                  \* 0x2E
    <<"Rla", "Absolute">>,                      \* 0x2F
    <<"Bmi", "Relative">>,                      \* 0x30
    <<"And", "IndexedIndirect">>,               \* 0x31
    <<"none", "none">>,                         \* 0x32
    <<"Rla", "IndexedIndirect">>,               \* 0x33
    <<"Nop", "ZeroPageX">>,                     \* 0x34
    <<"And", "ZeroPageX">>,                     \* 0x35
    <<"RolAddr", "ZeroPageX">>,                 \* 0x36
    <<"Rla", "ZeroPageX">>,                     \* 0x37
    <<"Sec", "Implicit">>,                      \* 0x38
    <<"And", "AbsoluteY">>,                     \* 0x39
    <<"Nop", "Implicit">>,                      \* 0x3A
    <<"Rla", "AbsoluteY">>,                     \* 0x3B
    <<"Nop", "AbsoluteX">>,                     \* 0x3C
    <<"And", "AbsoluteX">>,                     \* 0x3D
    <<"RolAddr", "AbsoluteX">>,                 \* 0x3E
    <<"Rla", "AbsoluteX">>,                     \* 0x3F
    <<"Rti", "Implicit">>,                      \* 0x40
    <<"Eor", "IndirectIndexed">>,               \* 0x41
    <<"none", "none">>,                         \* 0x42
    <<"Sre", "IndirectIndexed">>,               \* 0x43
    <<"Nop", "ZeroPage">>,                      \* 0x44
    <<"Eor", "ZeroPage">>,                      \* 0x45
    <<"LsrAddr", "ZeroPage">>,                  \* 0x46
    <<"Sre", "ZeroPage">>,                      \* 0x47
    <<"Pha", "Implicit">>,                      \* 0x48
    <<"Eor", "Immediate">>,                     \* 0x49
    <<"Lsr", "Accumulator">>,                   \* 0x4A
    <<"none", "none">>,                         \* 0x4B
    <<"Jmp", "Absolute">>,                      \* 0x4C
    <<"Eor", "Absolute">>,                      \* 0x4D
    <<"LsrAddr", "Absolute">>,                  \* 0x4E
    <<"Sre", "Absolute">>,                      \* 0x4F
    <<"Bvc", "Relative">>,                      \* 0x50
    <<"Eor", "IndexedIndirect">>,               \* 0x51
    <<"none", "none">>,                         \* 0x52
    <<"Sre", "IndexedIndirect">>,               \* 0x53
    <<"Nop", "ZeroPageX">>,                     \* 0x54
    <<"Eor", "ZeroPageX">>,                     \* 0x55
    <<"LsrAddr", "ZeroPageX">>,                 \* 0x56
    <<"Sre", "ZeroPageX">>,                     \* 0x57
    <<"Cli", "Implicit">>,                      \* 0x58
    <<"Eor", "AbsoluteY">>,                     \* 0x59
    <<"Nop", "Implicit">>,                      \* 0x5A
    <<"Sre", "AbsoluteY">>,                     \* 0x5B
    <<"Nop", "AbsoluteX">>,                     \* 0x5C
    <<"Eor", "AbsoluteX">>,                     \* 0x5D
    <<"LsrAddr", "AbsoluteX">>,                 \* 0x5E
    <<"Sre", "AbsoluteX">>,                     \* 0x5F
    <<"Rts", "Implicit">>,                      \* 0x60
    <<"Adc", "IndirectIndexed">>,               \* 0x61
    <<"none", "none">>,                         \* 0x62
    <<"Rra", "IndirectIndexed">>,               \* 0x63
    <<"Nop", "ZeroPage">>,                      \* 0x64
    <<"Adc", "ZeroPage">>,                      \* 0x65
    <<"RorAddr", "ZeroPage">>,                  \* 0x66
    <<"Rra", "ZeroPage">>,                      \* 0x67
    <<"Pla", "Implicit">>,                      \* 0x68
    <<"Adc", "Immediate">>,                     \* 0x69
    <<"Ror", "Accumulator">>,                   \* 0x6A
    <<"none", "none">>,                         \* 0x6B
    <<"Jmp", "Indirect">>,                      \* 0x6C
    <<"Adc", "Absolute">>,                      \* 0x6D
    <<"RorAddr", "Absolute">>,                  \* 0x6E
    <<"Rra", "Absolute">>,                      \* 0x6F
    <<"Bvs", "Relative">>,                      \* 0x70
    <<"Adc", "IndexedIndirect">>,               \* 0x71
    <<"none", "none">>,                         \* 0x72
    <<"Rra", "IndexedIndirect">>,               \* 0x73
    <<"Nop", "ZeroPageX">>,                     \* 0x74
    <<"Adc", "ZeroPageX">>,                     \* 0x75
    <<"RorAddr", "ZeroPageX">>,                 \* 0x76
    <<"Rra", "ZeroPageX">>,                     \* 0x77
    <<"Sei", "Implicit">>,                      \* 0x78
    <<"Adc", "AbsoluteY">>,                     \* 0x79
    <<"Nop", "Implicit">>,                      \* 0x7A
    <<"Rra", "AbsoluteY">>,                     \* 0x7B
    <<"Nop", "AbsoluteX">>,                     \* 0x7C
    <<"Adc", "AbsoluteX">>,                     \* 0x7D
    <<"RorAddr", "AbsoluteX">>,                 \* 0x7E
    <<"Rra", "AbsoluteX">>,                     \* 0x7F
    <<"Nop", "Immediate">>,                     \* 0x80
    <<"Sta", "IndirectIndexed">>,               \* 0x81
    <<"Nop", "Immediate">>,                     \* 0x82
    <<"Sax", "IndirectIndexed">>,               \* 0x83
    <<"Sty", "ZeroPage">>,                      \* 0x84
    <<"Sta", "ZeroPage">>,                      \* 0x85
    <<"Stx", "ZeroPage">>,                      \* 0x86
    <<"Sax", "ZeroPage">>,                      \* 0x87
    <<"Dey", "Implicit">>,                      \* 0x88
    <<"Nop", "Immediate">>,                     \* 0x89
    <<"Txa", "Implicit">>,                      \* 0x8A
    <<"none", "none">>,                         \* 0x8B
    <<"Sty", "Absolute">>,                      \* 0x8C
    <<"Sta", "Absolute">>,                      \* 0x8D
    <<"Stx", "Absolute">>,                      \* 0x8E
    <<"Sax", "Absolute">>,                      \* 0x8F
    <<"Bcc", "Relative">>,                      \* 0x90
    <<"Sta", "IndexedIndirect">>,               \* 0x91
    <<"none", "none">>,                         \* 0x92
    <<"none", "none">>,                         \* 0x93
    <<"Sty", "ZeroPageX">>,                     \* 0x94
    <<"Sta", "ZeroPageX">>,                     \* 0x95
    <<"Stx", "ZeroPageY">>,                     \* 0x96
    <<"Sax", "ZeroPageY">>,                     \* 0x97
    <<"Tya", "Implicit">>,                      \* 0x98
    <<"Sta", "AbsoluteY">>,                     \* 0x99
    <<"Txs", "Implicit">>,                      \* 0x9A
    <<"none", "none">>,                         \* 0x9B
    <<"none", "none">>,                         \* 0x9C
    <<"Sta", "AbsoluteX">>,                     \* 0x9D
    <<"none", "none">>,                         \* 0x9E
    <<"none", "none">>,                         \* 0x9F
    <<"Ldy", "Immediate">>,                     \* 0xA0
    <<"Lda", "IndirectIndexed">>,               \* 0xA1
    <<"Ldx", "Immediate">>,                     \* 0xA2
    <<"Lax", "IndirectIndexed">>,               \* 0xA3
    <<"Ldy", "ZeroPage">>,                      \* 0xA4
    <<"Lda", "ZeroPage">>,                      \* 0xA5
    <<"Ldx", "ZeroPage">>,                      \* 0xA6
    <<"Lax", "ZeroPage">>,                      \* 0xA7
    <<"Tay", "Implicit">>,                      \* 0xA8
    <<"Lda", "Immediate">>,                     \* 0xA9
    <<"Tax", "Implicit">>,                      \* 0xAA
    <<"none", "none">>,                         \* 0xAB
    <<"Ldy", "Absolute">>,                      \* 0xAC
    <<"Lda", "Absolute">>,                      \* 0xAD
    <<"Ldx", "Absolute">>,                      \* 0xAE
    <<"Lax", "Absolute">>,                      \* 0xAF
    <<"Bcs", "Relative">>,                      \* 0xB0
    <<"Lda", "IndexedIndirect">>,               \* 0xB1
    <<"none", "none">>,                         \* 0xB2
    <<"Lax", "IndexedIndirect">>,               \* 0xB3
    <<"Ldy", "ZeroPageX">>,                     \* 0xB4
    <<"Lda", "ZeroPageX">>,                     \* 0xB5
    <<"Ldx", "ZeroPageY">>,                     \* 0xB6
    <<"Lax", "ZeroPageY">>,                     \* 0xB7
    <<"Clv", "Implicit">>,                      \* 0xB8
    <<"Lda", "AbsoluteY">>,                     \* 0xB9
    <<"Tsx", "Implicit">>,                      \* 0xBA
    <<"none", "none">>,                         \* 0xBB
    <<"Ldy", "AbsoluteX">>,                     \* 0xBC
    <<"Lda", "AbsoluteX">>,                     \* 0xBD
    <<"Ldx", "AbsoluteY">>,                     \* 0xBE
    <<"Lax", "AbsoluteY">>,                     \* 0xBF
    <<"Cpy", "Immediate">>,                     \* 0xC0
    <<"Cmp", "IndirectIndexed">>,               \* 0xC1
    <<"Nop", "Immediate">>,                     \* 0xC2
    <<"Dcp", "IndirectIndexed">>,               \* 0xC3
    <<"Cpy", "ZeroPage">>,                      \* 0xC4
    <<"Cmp", "ZeroPage">>,                      \* 0xC5
    <<"Dec", "ZeroPage">>,                      \* 0xC6
    <<"Dcp", "ZeroPage">>,                      \* 0xC7
    <<"Incy", "Implicit">>,                     \* 0xC8
    <<"Cmp", "Immediate">>,                     \* 0xC9
    <<"Dex", "Implicit">>,                      \* 0xCA
    <<"none", "none">>,                         \* 0xCB
    <<"Cpy", "Absolute">>,                      \* 0xCC
    <<"Cmp", "Absolute">>,                      \* 0xCD
    <<"Dec", "Absolute">>,                      \* 0xCE
    <<"Dcp", "Absolute">>,                      \* 0xCF
    <<"Bne", "Relative">>,                      \* 0xD0
    <<"Cmp", "IndexedIndirect">>,               \* 0xD1
    <<"none", "none">>,                         \* 0xD2
    <<"Dcp", "IndexedIndirect">>,               \* 0xD3
    <<"Nop", "ZeroPageX">>,                     \* 0xD4
    <<"Cmp", "ZeroPageX">>,                     \* 0xD5
    <<"Dec", "ZeroPageX">>,                     \* 0xD6
    <<"Dcp", "ZeroPageX">>,                     \* 0xD7
    <<"Cld", "Implicit">>,                      \* 0xD8
    <<"Cmp", "AbsoluteY">>,                     \* 0xD9
    <<"Nop", "Implicit">>,                      \* 0xDA
    <<"Dcp", "AbsoluteY">>,                     \* 0xDB
    <<"Nop", "AbsoluteX">>,                     \* 0xDC
    <<"Cmp", "AbsoluteX">>,                     \* 0xDD
    <<"Dec", "AbsoluteX">>,                     \* 0xDE
    <<"Dcp", "AbsoluteX">>,                     \* 0xDF
    <<"Cpx", "Immediate">>,                     \* 0xE0
    <<"Sbc", "IndirectIndexed">>,               \* 0xE1
    <<"Nop", "Immediate">>,                     \* 0xE2
    <<"Isc", "IndirectIndexed">>,               \* 0xE3
    <<"Cpx", "ZeroPage">>,                      \* 0xE4
    <<"Sbc", "ZeroPage">>,                      \* 0xE5
    <<"Inc", "ZeroPage">>,                      \* 0xE6
    <<"Isc", "ZeroPage">>,                      \* 0xE7
    <<"Incx", "Implicit">>,                     \* 0xE8
    <<"Sbc", "Immediate">>,                     \* 0xE9
    <<"Nop", "Implicit">>,                      \* 0xEA
    <<"Sbc", "Immediate">>,                     \* 0xEB
    <<"Cpx", "Absolute">>,                      \* 0xEC
    <<"Sbc", "Absolute">>,                      \* 0xED
    <<"Inc", "Absolute">>,                      \* 0xEE
    <<"Isc", "Absolute">>,                      \* 0xEF
    <<"Beq", "Relative">>,                      \* 0xF0
    <<"Sbc", "IndexedIndirect">>,               \* 0xF1
    <<"none", "none">>,                         \* 0xF2
    <<"Isc", "IndexedIndirect">>,               \* 0xF3
    <<"Nop", "ZeroPageX">>,                     \* 0xF4
    <<"Sbc", "ZeroPageX">>,                     \* 0xF5
    <<"Inc", "ZeroPageX">>,                     \* 0xF6
    <<"Isc", "ZeroPageX">>,                     \* 0xF7
    <<"Sed", "Implicit">>,                      \* 0xF8
    <<"Sbc", "AbsoluteY">>,                     \* 0xF9
    <<"Nop", "Implicit">>,                      \* 0xFA
    <<"Isc", "AbsoluteY">>,                     \* 0xFB
    <<"Nop", "AbsoluteX">>,                     \* 0xFC
    <<"Sbc", "AbsoluteX">>,                     \* 0xFD
    <<"Inc", "AbsoluteX">>,                     \* 0xFE
    <<"Isc", "AbsoluteX">>                      \* 0xFF
    >>

\* the cycle closure of each impl_instr!: the addressing modes it prices; any
\* other mode reaches unimplemented!()
CycleTable ==
    [ Nop |-> [Implicit |-> 2, Immediate |-> 2, ZeroPage |-> 3, ZeroPageX |-> 4, Absolute |-> 4, AbsoluteX |-> 4],
      Lda |-> [Immediate |-> 2, ZeroPage |-> 3, ZeroPageX |-> 4, Absolute |-> 4, AbsoluteX |-> 4, AbsoluteY |-> 4, IndirectIndexed |-> 6, IndexedIndirect |-> 5],
      Ldx |-> [Immediate |-> 2, ZeroPage |-> 3, ZeroPageY |-> 4, Absolute |-> 4, AbsoluteY |-> 4],
      Ldy |-> [Immediate |-> 2, ZeroPage |-> 3, ZeroPageX |-> 4, Absolute |-> 4, AbsoluteX |-> 4],
      Lax |-> [ZeroPage |-> 3, ZeroPageY |-> 4, Absolute |-> 4, AbsoluteY |-> 4, IndexedIndirect |-> 6, IndirectIndexed |-> 5],
      Sta |-> [ZeroPage |-> 3, ZeroPageX |-> 4, Absolute |-> 4, AbsoluteX |-> 5, AbsoluteY |-> 5, IndexedIndirect |-> 6, IndirectIndexed |-> 6],
      Stx |-> [ZeroPage |-> 3, ZeroPageY |-> 4, Absolute |-> 4],
      Sty |-> [ZeroPage |-> 3, ZeroPageX |-> 4, Absolute |-> 4],
      Sax |-> [ZeroPage |-> 3, ZeroPageY |-> 4, Absolute |-> 4, IndirectIndexed |-> 6],
      Tax |-> [Implicit |-> 2],
      Tay |-> [Implicit |-> 2],
      Txa |-> [Implicit |-> 2],
      Tya |-> [Implicit |-> 2],
      Tsx |-> [Implicit |-> 2],
      Txs |-> [Implicit |-> 2],
      Pha |-> [Implicit |-> 3],
      Php |-> [Implicit |-> 3],
      Pla |-> [Implicit |-> 4],
      Plp |-> [Implicit |-> 4],
      And |-> [Immediate |-> 2, ZeroPage |-> 3, ZeroPageX |-> 4, ZeroPageY |-> 4, Absolute |-> 4, AbsoluteX |-> 4, AbsoluteY |-> 4, IndirectIndexed |-> 6, IndexedIndirect |-> 5],
      Eor |-> [Immediate |-> 2, ZeroPage |-> 3, ZeroPageX |-> 4, ZeroPageY |-> 4, Absolute |-> 4, AbsoluteX |-> 4, AbsoluteY |-> 4, IndexedIndirect |-> 6, IndirectIndexed |-> 5],
      Ora |-> [Immediate |-> 2, ZeroPage |-> 3, ZeroPageX |-> 4, ZeroPageY |-> 4, Absolute |-> 4, AbsoluteX |-> 4, AbsoluteY |-> 4, IndexedIndirect |-> 6, IndirectIndexed |-> 5],
      Bit |-> [ZeroPage |-> 3, Absolute |-> 4],
      Jmp |-> [Absolute |-> 3, Indirect |-> 5],
      Jsr |-> [Absolute |-> 6],
      Rts |-> [Implicit |-> 6],
      Bne |-> [Relative |-> 2],
      Beq |-> [Relative |-> 2],
      Bpl |-> [Relative |-> 2],
      Bcc |-> [Relative |-> 2],
      Bcs |-> [Relative |-> 2],
      Bmi |-> [Relative |-> 2],
      Bvc |-> [Relative |-> 2],
      Bvs |-> [Relative |-> 2],
      Dex |-> [Implicit |-> 2],
      Dey |-> [Implicit |-> 2],
      Inc |-> [ZeroPage |-> 5, ZeroPageX |-> 6, Absolute |-> 6, AbsoluteX |-> 7],
      Incx |-> [Implicit |-> 2],
      Incy |-> [Implicit |-> 2],
      Asl |-> [Accumulator |-> 2],
      AslAddr |-> [ZeroPage |-> 5, ZeroPageX |-> 6, Absolute |-> 6, AbsoluteX |-> 7],
      Slo |-> [ZeroPage |-> 5, ZeroPageX |-> 6, Absolute |-> 6, AbsoluteX |-> 7, AbsoluteY |-> 7, IndexedIndirect |-> 8, IndirectIndexed |-> 8],
      Lsr |-> [Accumulator |-> 2],
      LsrAddr |-> [ZeroPage |-> 5, ZeroPageX |-> 6, Absolute |-> 6, AbsoluteX |-> 7],
      Sre |-> [ZeroPage |-> 5, ZeroPageX |-> 6, Absolute |-> 6, AbsoluteX |-> 7, AbsoluteY |-> 7, IndexedIndirect |-> 8, IndirectIndexed |-> 8],
      Rol |-> [Accumulator |-> 2],
      RolAddr |-> [ZeroPage |-> 5, ZeroPageX |-> 6, Absolute |-> 6, AbsoluteX |-> 7],
      Rla |-> [ZeroPage |-> 5, ZeroPageX |-> 6, Absolute |-> 6, AbsoluteX |-> 7, AbsoluteY |-> 7, IndexedIndirect |-> 8, IndirectIndexed |-> 8],
      Ror |-> [Accumulator |-> 2],
      RorAddr |-> [ZeroPage |-> 5, ZeroPageX |-> 6, Absolute |-> 6, AbsoluteX |-> 7],
      Rra |-> [ZeroPage |-> 5, ZeroPageX |-> 6, Absolute |-> 6, AbsoluteX |-> 7, AbsoluteY |-> 7, IndexedIndirect |-> 8, IndirectIndexed |-> 8],
      Clc |-> [Implicit |-> 2],
      Sec |-> [Implicit |-> 2],
      Cld |-> [Implicit |-> 2],
      Sed |-> [Implicit |-> 2],
      Cli |-> [Implicit |-> 2],
      Sei |-> [Implicit |-> 2],
      Clv |-> [Implicit |-> 2],
      Cmp |-> [Immediate |-> 2, ZeroPage |-> 3, ZeroPageX |-> 4, Absolute |-> 4, AbsoluteX |-> 4, AbsoluteY |-> 4, IndexedIndirect |-> 6, IndirectIndexed |-> 5],
      Cpx |-> [Immediate |-> 2, ZeroPage |-> 3, Absolute |-> 4],
      Cpy |-> [Immediate |-> 2, ZeroPage |-> 3, Absolute |-> 4],
      Adc |-> [Immediate |-> 2, ZeroPage |-> 3, ZeroPageX |-> 4, Absolute |-> 4, AbsoluteX |-> 4, AbsoluteY |-> 4, IndexedIndirect |-> 6, IndirectIndexed |-> 5],
      Sbc |-> [Immediate |-> 2, ZeroPage |-> 3, ZeroPageX |-> 4, Absolute |-> 4, AbsoluteX |-> 4, AbsoluteY |-> 4, IndexedIndirect |-> 6, IndirectIndexed |-> 5],
      Brk |-> [Implicit |-> 7],
      Rti |-> [Implicit |-> 6],
      Isc |-> [ZeroPage |-> 5, ZeroPageX |-> 6, Absolute |-> 6, AbsoluteX |-> 7, AbsoluteY |-> 7, IndexedIndirect |-> 8, IndirectIndexed |-> 8],
      Dec |-> [ZeroPage |-> 5, ZeroPageX |-> 6, Absolute |-> 6, AbsoluteX |-> 7],
      Dcp |-> [ZeroPage |-> 5, ZeroPageX |-> 6, Absolute |-> 6, AbsoluteX |-> 7, AbsoluteY |-> 7, IndexedIndirect |-> 8, IndirectIndexed |-> 8] ]

\* Self::instr of the instruction named kind
Instr(kind, m, addr) ==
    CASE kind = "Nop" -> Nop(m, addr)
      [] kind = "Lda" -> Lda(m, addr)
      [] kind = "Ldx" -> Ldx(m, addr)
      [] kind = "Ldy" -> Ldy(m, addr)
      [] kind = "Lax" -> Lax(m, addr)
      [] kind = "Sta" -> Sta(m, addr)
      [] kind = "Stx" -> Stx(m, addr)
      [] kind = "Sty" -> Sty(m, addr)
      [] kind = "Sax" -> Sax(m, addr)
      [] kind = "Tax" -> Tax(m, addr)
      [] kind = "Tay" -> Tay(m, addr)
      [] kind = "Txa" -> Txa(m, addr)
      [] kind = "Tya" -> Tya(m, addr)
      [] kind = "Tsx" -> Tsx(m, addr)
      [] kind = "Txs" -> Txs(m, addr)
      [] kind = "Pha" -> Pha(m, addr)
      [] kind = "Php" -> Php(m, addr)
      [] kind = "Pla" -> Pla(m, addr)
      [] kind = "Plp" -> Plp(m, addr)
      [] kind = "And" -> And(m, addr)
      [] kind = "Eor" -> Eor(m, addr)
      [] kind = "Ora" -> Ora(m, addr)
      [] kind = "Bit" -> Bit(m, addr)
      [] kind = "Jmp" -> Jmp(m, addr)
      [] kind = "Jsr" -> Jsr(m, addr)
      [] kind = "Rts" -> Rts(m, addr)
      [] kind = "Bne" -> Bne(m, addr)
      [] kind = "Beq" -> Beq(m, addr)
      [] kind = "Bpl" -> Bpl(m, addr)
      [] kind = "Bcc" -> Bcc(m, addr)
      [] kind = "Bcs" -> Bcs(m, addr)
      [] kind = "Bmi" -> Bmi(m, addr)
      [] kind = "Bvc" -> Bvc(m, addr)
      [] kind = "Bvs" -> Bvs(m, addr)
      [] kind = "Dex" -> Dex(m, addr)
      [] kind = "Dey" -> Dey(m, addr)
      [] kind = "Inc" -> Inc(m, addr)
      [] kind = "Incx" -> Incx(m, addr)
      [] kind = "Incy" -> Incy(m, addr)
      [] kind = "Asl" -> Asl(m, addr)
      [] kind = "AslAddr" -> AslAddr(m, addr)
      [] kind = "Slo" -> Slo(m, addr)
      [] kind = "Lsr" -> Lsr(m, addr)
      [] kind = "LsrAddr" -> LsrAddr(m, addr)
      [] kind = "Sre" -> Sre(m, addr)
      [] kind = "Rol" -> Rol(m, addr)
      [] kind = "RolAddr" -> RolAddr(m, addr)
      [] kind = "Rla" -> Rla(m, addr)
      [] kind = "Ror" -> Ror(m, addr)
      [] kind = "RorAddr" -> RorAddr(m, addr)
      [] kind = "Rra" -> Rra(m, addr)
      [] kind = "Clc" -> Clc(m, addr)
      [] kind = "Sec" -> Sec(m, addr)
      [] kind = "Cld" -> Cld(m, addr)
      [] kind = "Sed" -> Sed(m, addr)
      [] kind = "Cli" -> Cli(m, addr)
      [] kind = "Sei" -> Sei(m, addr)
      [] kind = "Clv" -> Clv(m, addr)
      [] kind = "Cmp" -> Cmp(m, addr)
      [] kind = "Cpx" -> Cpx(m, addr)
      [] kind = "Cpy" -> Cpy(m, addr)
      [] kind = "Adc" -> Adc(m, addr)
      [] kind = "Sbc" -> Sbc(m, addr)
      [] kind = "Brk" -> Brk(m, addr)
      [] kind = "Rti" -> Rti(m, addr)
      [] kind = "Isc" -> Isc(m, addr)
      [] kind = "Dec" -> Dec(m, addr)
      [] kind = "Dcp" -> Dcp(m, addr)

\* the addressing-mode match of run_with (IndirectIndexed resolves with
\* Cpu::inx and IndexedIndirect with Cpu::iny, as the source has them)
Resolve(mode, m) ==
    CASE mode \in {"Implicit", "Accumulator"} -> Ret(m, 0)
      [] mode = "Immediate" -> imm(m)
      [] mode \in {"ZeroPage", "Relative"} -> zp(m)
      [] mode = "ZeroPageX" -> zpx(m)
      [] mode = "ZeroPageY" -> zpy(m)
      [] mode = "Absolute" -> abs(m)
      [] mode = "AbsoluteX" -> abx(m)
      [] mode = "AbsoluteY" -> aby(m)
      [] mode = "Indirect" -> ind(m)
      [] mode = "IndirectIndexed" -> inx(m)
      [] mode = "IndexedIndirect" -> iny(m)

\* a Sax cycle closure without its (zp,X) arm
HasCycles_sax_unpriced(kind, mode) ==
    mode \in DOMAIN CycleTable[kind] /\ ~(kind = "Sax" /\ mode = "IndirectIndexed")

\* the cycle closure: the cost, or unimplemented!() for a mode it does not list
HasCycles(kind, mode) == mode \in DOMAIN CycleTable[kind]

\* InstructionTrait::run_with: resolve, execute, then price; yields the cycles
run_with(kind, mode, m) ==
    LET with_m1(m1) ==
            IF HasCycles(kind, mode) THEN Ret(m1, CycleTable[kind][mode])
            ELSE Ret(Panic(m1, "unimplemented_mode"), 0)
        with_r(r) == with_m1(Instr(kind, r.m, r.v))
    IN  with_r(Resolve(mode, m))

\* a run_instruction that ignores an opcode it has no arm for
run_instruction_skips_unknown(m, opcode) ==
    LET with_r(r) == SetCpu(r.m, [cycles |-> r.m.cpu.cycles + r.v])
        with_e(e) ==
            IF e[1] = "none" THEN m
            ELSE with_r(run_with(e[1], e[2], m))
    IN  IF ~Ok(m) THEN m ELSE with_e(OpTable[opcode + 1])

\* a run_instruction that does not add the cost to the cycle counter
run_instruction_uncounted(m, opcode) ==
    LET with_e(e) ==
            IF e[1] = "none" THEN Panic(m, "unimplemented_opcode")
            ELSE run_with(e[1], e[2], m).m
    IN  IF ~Ok(m) THEN m ELSE with_e(OpTable[opcode + 1])

\* Cpu::run_instruction
run_instruction(m, opcode) ==
    LET with_r(r) == SetCpu(r.m, [cycles |-> r.m.cpu.cycles + r.v])
        with_e(e) ==
            IF e[1] = "none" THEN Panic(m, "unimplemented_opcode")
            ELSE with_r(run_with(e[1], e[2], m))
    IN  IF ~Ok(m) THEN m ELSE with_e(OpTable[opcode + 1])

\* Cpu::read_instruction
read_instruction(m) ==
    LET with_r(r) == run_instruction(r.m, r.v)
    IN  with_r(Rd(m, m.cpu.pc))

\* a reset that takes the vector's first byte as the high byte
reset_big_endian(m) ==
    LET with_hi(lo, hi) ==
            SetCpu(hi.m, [pc |-> BitOr(hi.v, lo.v * 256)])
        with_lo(lo) == with_hi(lo, Rd(lo.m, 65533))
    IN  with_lo(Rd(m, 65532))

\* Cpu::reset
reset(m) ==
    LET with_hi(lo, hi) ==
            SetCpu(hi.m, [pc |-> BitOr(lo.v, hi.v * 256)])
        with_lo(lo) == with_hi(lo, Rd(lo.m, 65533))
    IN  with_lo(Rd(m, 65532))

\* an nmi that pushes the status byte before the program counter
nmi_status_first(m) ==
    LET with_m2(lo, hi, m2) ==
            SetCpu(m2, [pc |-> BitOr(lo.v, hi.v * 256)])
        with_m1(lo, hi, m1) == with_m2(lo, hi, push_long(m1, m.cpu.pc))
        with_hi(lo, hi) == with_m1(lo, hi, push(hi.m, status_to_word(hi.m.cpu)))
        with_lo(lo) == with_hi(lo, Rd(lo.m, 65531))
    IN  with_lo(Rd(m, 65530))

\* Cpu::nmi
nmi(m) ==
    LET with_m2(lo, hi, m2) ==
            SetCpu(m2, [pc |-> BitOr(lo.v, hi.v * 256)])
        with_m1(lo, hi, m1) == with_m2(lo, hi, push(m1, status_to_word(m1.cpu)))
        with_hi(lo, hi) == with_m1(lo, hi, push_long(hi.m, m.cpu.pc))
        with_lo(lo) == with_hi(lo, Rd(lo.m, 65531))
    IN  with_lo(Rd(m, 65530))

---------------------------------------------------------------------------
(* The machine record of the current state, and the state after a call.    *)

\* the machine as the variables hold it; chk: whether the build checks
\* integer overflow
Machine(chk) ==
    [ cpu |-> cpu,
      dev |-> [ ram |-> ram, pattern_tables |-> pattern_tables,
                nametables |-> nametables, pallettes |-> pallettes ],
      ppu |-> ppu,
      fault |-> fault,
      log |-> <<>>,
      overflow_checks |-> chk ]

\* the variables take the machine m
Becomes(m) ==
    /\ cpu' = m.cpu
    /\ ram' = m.dev.ram
    /\ pattern_tables' = m.dev.pattern_tables
    /\ nametables' = m.dev.nametables
    /\ pallettes' = m.dev.pallettes
    /\ ppu' = m.ppu
    /\ fault' = m.fault

\* the record `last` keeps of an operation
Op(name, arg, ret, m) ==
    [ op |-> name, arg |-> arg, ret |-> ret, cpu |-> cpu, ppu |-> ppu,
      dev |-> Machine(FALSE).dev, log |-> m.log ]

NoOp == [ op |-> "none", arg |-> 0, ret |-> 0, cpu |-> CpuNew, ppu |-> PpuNew,
          dev |-> [ ram |-> RamCreate, pattern_tables |-> RamCreate,
                    nametables |-> RamCreate, pallettes |-> RamCreate ],
          log |-> <<>> ]

---------------------------------------------------------------------------
(* Operations of the running machine.                                      *)

\* the devices and observations as Machine::new and Ppu::new leave them
InitRest ==
    /\ ppu = PpuNew
    /\ pattern_tables = RamCreate
    /\ nametables = RamCreate
    /\ pallettes = RamCreate
    /\ fault = "none"
    /\ last = NoOp
    /\ prev = NoOp

\* the driver's self.cpu.read_instruction(&mut self.asc): one whole
\* fetch-decode-execute step
Step ==
    /\ fault = "none"
    /\ \E chk \in BOOLEAN :
        \E m \in { read_instruction(Machine(chk)) } :
            /\ Becomes(m)
            /\ last' = Op("step", 0, 0, m)
            /\ prev' = last

\* what the last step fetched: its opcode and the bytes after it
LastOpcode == last.dev.ram[last.cpu.pc]

LastOperand == last.dev.ram[last.cpu.pc + 1]

Stepped(opcode) ==
    /\ last.op = "step"
    /\ last.cpu.pc \in DOMAIN last.dev.ram
    /\ LastOpcode = opcode

---------------------------------------------------------------------------
(* SpecAlu: ADC #imm and SBC #imm at 0x8000, for every accumulator, every  *)
(* operand byte and both carry-in values.                                  *)

MaxAluSteps == 1

InitAlu ==
    /\ cpu \in { [CpuNew EXCEPT !.pc = 32768, !.a = a, !.carry_flag = c] :
                    a \in Byte, c \in BOOLEAN }
    /\ ram \in { (32768 :> op) @@ (32769 :> b) : op \in {105, 233}, b \in Byte }
    /\ hist = [steps |-> 0]
    /\ InitRest

AluStep ==
    /\ hist.steps < MaxAluSteps
    /\ Step
    /\ hist' = [hist EXCEPT !.steps = @ + 1]

NextAlu == AluStep

SpecAlu == InitAlu /\ [][NextAlu]_vars

\* the 6502 reference result of A + operand + carry-in
AdcRef(a, b, c) ==
    LET with_res(sum, res) ==
            [ a |-> res,
              carry_flag |-> sum > 255,
              overflow_flag |-> (BitAt(a, 7) = BitAt(b, 7)) /\ (BitAt(res, 7) # BitAt(a, 7)),
              zero_flag |-> res = 0,
              negative_flag |-> BitAt(res, 7) = 1 ]
        with_sum(sum) == with_res(sum, sum % 256)
    IN  with_sum(a + b + c)

\* the fields of the Cpu that AdcRef describes
AluOut(c) ==
    [ a |-> c.a, carry_flag |-> c.carry_flag, overflow_flag |-> c.overflow_flag,
      zero_flag |-> c.zero_flag, negative_flag |-> c.negative_flag ]

\* C1: after ADC on accumulator a, operand b and carry-in c, A = (a+b+c) mod 256,
\* carry = (a+b+c > 255), overflow = (a and b share bit 7 and the result's bit 7
\* differs), zero = (result = 0), negative = bit 7 of the result.
C1_AdcMatchesReference ==
    (Stepped(105) /\ fault = "none") =>
        AluOut(cpu) = AdcRef(last.cpu.a, LastOperand, B2N(last.cpu.carry_flag))

\* ADC 0xff + 0x00 + carry: the carry comes out of the second addition only
C1_Witness ==
    /\ Stepped(105) /\ fault = "none"
    /\ last.cpu.a = 255 /\ LastOperand = 0 /\ last.cpu.carry_flag
    /\ cpu.a = 0 /\ cpu.carry_flag /\ cpu.zero_flag /\ ~cpu.overflow_flag

\* C2: after SBC on a, b and carry-in c, A = (a - b - (1 - c)) mod 256 and carry is
\* set exactly when no borrow occurred (c = 1: a >= b; c = 0: a > b); the result
\* and all flags are those of ADC on the bitwise complement of b.
C2_SbcIsAdcOfComplement ==
    (Stepped(233) /\ fault = "none") =>
        LET a == last.cpu.a
            b == LastOperand
            c == B2N(last.cpu.carry_flag)
        IN  /\ cpu.a = (a - b - (1 - c) + 512) % 256
            /\ cpu.carry_flag = (IF c = 1 THEN a >= b ELSE a > b)
            /\ AluOut(cpu) = AdcRef(a, 255 - b, c)

\* SBC 0x50 - 0x50 with carry clear: a borrow, result 0xff, carry clear
C2_Witness ==
    /\ Stepped(233) /\ fault = "none"
    /\ last.cpu.a = 80 /\ LastOperand = 80 /\ ~last.cpu.carry_flag
    /\ cpu.a = 255 /\ ~cpu.carry_flag /\ cpu.negative_flag

---------------------------------------------------------------------------
(* SpecStack: push_long and pop_long called from every stack pointer, on   *)
(* a machine whose stack page has not been written yet.                    *)

MaxStackOps == 2

\* 16-bit values pushed: both bytes equal, distinct, zero, all ones
LongSamples == {0, 255, 65280, 4660, 32769, 43981, 65535}

InitStack ==
    /\ cpu \in { [CpuNew EXCEPT !.sp = s] : s \in Byte }
    /\ ram = RamCreate
    /\ hist = [steps |-> 0]
    /\ InitRest

PushLongOp ==
    /\ fault = "none"
    /\ hist.steps < MaxStackOps
    /\ \E v \in LongSamples, chk \in BOOLEAN :
        \E m \in { push_long(Machine(chk), v) } :
            /\ Becomes(m)
            /\ last' = Op("push_long", v, 0, m)
    /\ prev' = last
    /\ hist' = [hist EXCEPT !.steps = @ + 1]

PopLongOp ==
    /\ fault = "none"
    /\ hist.steps < MaxStackOps
    /\ \E chk \in BOOLEAN :
        \E r \in { pop_long(Machine(chk)) } :
            /\ Becomes(r.m)
            /\ last' = Op("pop_long", 0, r.v, r.m)
    /\ prev' = last
    /\ hist' = [hist EXCEPT !.steps = @ + 1]

NextStack == PushLongOp \/ PopLongOp

SpecStack == InitStack /\ [][NextStack]_vars

\* C3: push_long(v) followed by pop_long() returns v and leaves SP as it was
\* before the push, for every starting SP including those where the push wraps.
C3_PushPopLongRoundTrip ==
    (last.op = "pop_long" /\ prev.op = "push_long") =>
        /\ fault = "none"
        /\ last.ret = prev.arg
        /\ cpu.sp = prev.cpu.sp

\* the round trip from SP = 0x00: the two bytes go to 0x0100 and 0x01ff
C3_Witness ==
    /\ last.op = "pop_long" /\ prev.op = "push_long"
    /\ prev.cpu.sp = 0 /\ prev.arg = 4660
    /\ last.cpu.sp = 254
    /\ last.ret = 4660 /\ cpu.sp = 0
    /\ ram[256] = 18 /\ ram[511] = 52

---------------------------------------------------------------------------
(* SpecStackWrap: from each starting SP, StackSize pushes and then         *)
(* StackSize pops.                                                         *)

\* the number of values of the u8 stack pointer
StackSize == 256

StartSPs == Byte

InitStackWrap ==
    /\ cpu \in { [CpuNew EXCEPT !.sp = s] : s \in StartSPs }
    /\ ram = RamCreate
    /\ hist = [sp0 |-> cpu.sp, pushes |-> 0, pops |-> 0]
    /\ InitRest

\* the k-th push stores k mod 256
PushOp ==
    /\ fault = "none"
    /\ hist.pops = 0
    /\ hist.pushes < StackSize
    /\ \E chk \in BOOLEAN :
        \E m \in { push(Machine(chk), hist.pushes % 256) } :
            /\ Becomes(m)
            /\ last' = Op("push", hist.pushes % 256, 0, m)
    /\ prev' = last
    /\ hist' = [hist EXCEPT !.pushes = @ + 1]

PopOp ==
    /\ fault = "none"
    /\ hist.pushes = StackSize
    /\ hist.pops < StackSize
    /\ \E chk \in BOOLEAN :
        \E r \in { pop(Machine(chk)) } :
            /\ Becomes(r.m)
            /\ last' = Op("pop", 0, r.v, r.m)
    /\ prev' = last
    /\ hist' = [hist EXCEPT !.pops = @ + 1]

NextStackWrap == PushOp \/ PopOp

SpecStackWrap == InitStackWrap /\ [][NextStackWrap]_vars

\* C4: SP wraps modulo 256 and every stack access stays in 0x0100..0x01ff: a push
\* writes at 0x0100|SP and then decrements SP, a pop increments SP and then reads
\* at 0x0100|SP, and 256 pushes followed by 256 pops restore SP with no error.
C4_StackWrapsInPage ==
    /\ fault = "none"
    /\ last.op = "push" =>
        /\ last.log = << Access("w", "main", 256 + last.cpu.sp, last.arg) >>
        /\ cpu.sp = (last.cpu.sp + 255) % 256
    /\ last.op = "pop" =>
        /\ last.log = << Access("r", "main", 256 + cpu.sp, last.ret) >>
        /\ cpu.sp = (last.cpu.sp + 1) % 256
    /\ \A i \in 1..Len(last.log) : last.log[i].addr \in 256..511
    /\ (hist.pushes = StackSize /\ hist.pops = StackSize) => cpu.sp = hist.sp0

\* from SP = 0x01 the run wraps twice and ends where it began
C4_Witness ==
    /\ hist.sp0 = 1 /\ hist.pushes = StackSize /\ hist.pops = StackSize
    /\ last.op = "pop" /\ last.cpu.sp = 0 /\ cpu.sp = 1
    /\ fault = "none"

---------------------------------------------------------------------------
(* SpecBus: reads and writes on the CPU's bus and on the PPU's own bus,    *)
(* and CPU steps whose operand is an address of the CPU's bus.             *)

MaxBusOps == 2

\* addresses of the CPU's bus: internal RAM, the gap above it, PPU
\* registers, the gap above them, the DMA port, cartridge space
MainSamples == {5, 2047, 2048, 8192, 8198, 8199, 8200, 16404, 16415, 16416}

\* addresses of the PPU's bus: a pattern-table cell, nametable cells and
\* their mirrors, palette cells and their mirrors, and above the registered range
PpuSamples == {5, 8197, 12293, 16133, 16165, 16128, 16144, 16176, 16384}

BusSamples(bus) == IF bus = "main" THEN MainSamples ELSE PpuSamples

BusValues == {1, 2}

\* LDA $0800, STA $0800, LDA $401f, STA $2008 at 0x8000
BusPrograms ==
    { (32768 :> 173) @@ (32769 :> 0)  @@ (32770 :> 8),
      (32768 :> 141) @@ (32769 :> 0)  @@ (32770 :> 8),
      (32768 :> 173) @@ (32769 :> 31) @@ (32770 :> 64),
      (32768 :> 141) @@ (32769 :> 8)  @@ (32770 :> 32) }

InitBus ==
    /\ cpu = [CpuNew EXCEPT !.pc = 32768, !.a = 7]
    /\ ram \in BusPrograms
    /\ hist = [steps |-> 0]
    /\ InitRest

BusWriteOp ==
    /\ fault = "none"
    /\ hist.steps < MaxBusOps
    /\ \E bus \in {"main", "ppu"}, chk \in BOOLEAN :
        \E addr \in BusSamples(bus), value \in BusValues :
            \E m \in { AscWrite(Machine(chk), bus, addr, value) } :
                /\ Becomes(m)
                /\ last' = Op("bus_write",
                              [bus |-> bus, addr |-> addr, value |-> value],
                              0, m)
    /\ prev' = last
    /\ hist' = [hist EXCEPT !.steps = @ + 1]

BusReadOp ==
    /\ fault = "none"
    /\ hist.steps < MaxBusOps
    /\ \E bus \in {"main", "ppu"}, chk \in BOOLEAN :
        \E addr \in BusSamples(bus) :
            \E r \in { AscRead(Machine(chk), bus, addr) } :
                /\ Becomes(r.m)
                /\ last' = Op("bus_read",
                              [bus |-> bus, addr |-> addr, value |-> 0],
                              r.v, r.m)
    /\ prev' = last
    /\ hist' = [hist EXCEPT !.steps = @ + 1]

BusStep ==
    /\ hist.steps < MaxBusOps
    /\ Step
    /\ hist' = [hist EXCEPT !.steps = @ + 1]

NextBus == BusWriteOp \/ BusReadOp \/ BusStep

SpecBus == InitBus /\ [][NextBus]_vars

\* the machine before the last operation, in a build that checks integer
\* overflow (chk) or one that does not
Before(chk) ==
    [ cpu |-> last.cpu, dev |-> last.dev, ppu |-> last.ppu,
      fault |-> "none", log |-> <<>>, overflow_checks |-> chk ]

\* what a read of addr on bus answers in machine m: the value, and whether
\* the read aborted
Answer(m, bus, addr) ==
    LET with_r(r) == [v |-> r.v, fault |-> r.m.fault]
    IN  with_r(AscRead(m, bus, addr))

\* the device state and abort state of a machine
Observable(m) == [dev |-> m.dev, ppu |-> m.ppu, fault |-> m.fault]

\* C5 as the specification words it: a write to x leaves every read of the
\* bus answering as it would after a write of the same value to bus address
\* x & m
C5_WriteToMaskedBusAddress ==
    (last.op = "bus_write" /\ DeviceOf(last.arg.bus, last.arg.addr) # "none") =>
        LET bus   == last.arg.bus
            x     == last.arg.addr
            other(chk) == AscWrite(Before(chk), bus,
                                   BitAnd(x, MaskOf(bus, x)), last.arg.value)
        IN  \E chk \in BOOLEAN : \A y \in BusSamples(bus) :
                Answer(Machine(chk), bus, y) = Answer(other(chk), bus, y)

\* C5: a write to a raw address x registered with device D and mirror mask m
\* is a write to D at its local address x & m, so raw addresses of the same
\* storage device with equal masked values alias: after the write a read of
\* any of them answers the value written.
C5_MirrorIsDeviceLocal ==
    (last.op = "bus_write" /\ DeviceOf(last.arg.bus, last.arg.addr) # "none") =>
        LET bus    == last.arg.bus
            x      == last.arg.addr
            d      == DeviceOf(bus, x)
            local  == BitAnd(x, MaskOf(bus, x))
            direct(chk) ==
                IF d = "ppu" THEN PpuWrite(Before(chk), local, last.arg.value)
                ELSE [Before(chk) EXCEPT !.dev[d] = RamWrite(@, local, last.arg.value)]
        IN  /\ \E chk \in BOOLEAN : Observable(Machine(chk)) = Observable(direct(chk))
            /\ \A y \in BusSamples(bus) :
                (/\ d \in RamDevices
                 /\ DeviceOf(bus, y) = d
                 /\ BitAnd(y, MaskOf(bus, y)) = local)
                => Answer(Machine(FALSE), bus, y) = [v |-> last.arg.value, fault |-> "none"]

\* a write to 0x3005 of the PPU's bus lands in nametable cell 0x005, where
\* 0x2005 reads it, and leaves the pattern tables (bus address 0x0005) alone
C5_Witness ==
    /\ last.op = "bus_write" /\ last.arg.bus = "ppu"
    /\ last.arg.addr = 12293 /\ last.arg.value = 2
    /\ nametables = (5 :> 2)
    /\ Answer(Machine(FALSE), "ppu", 8197) = [v |-> 2, fault |-> "none"]
    /\ pattern_tables = (5 :> 1)
    /\ Answer(Machine(FALSE), "ppu", 5) = [v |-> 1, fault |-> "none"]

\* C6: a read of an address with no registered device answers 0, a write to
\* one changes no device, neither aborts, and a CPU step whose operand is
\* such an address completes.
C6_MissIsHarmless ==
    /\ (last.op \in {"bus_read", "bus_write"}
        /\ DeviceOf(last.arg.bus, last.arg.addr) = "none") =>
            /\ fault = "none"
            /\ last.ret = 0
            /\ Observable(Machine(FALSE)) = Observable(Before(FALSE))
    /\ (last.op = "step"
        /\ \E i \in 1..Len(last.log) : DeviceOf("main", last.log[i].addr) = "none") =>
            /\ fault = "none"
            /\ cpu.pc = last.cpu.pc + 3
            /\ [dev |-> Machine(FALSE).dev, ppu |-> ppu] = [dev |-> last.dev, ppu |-> last.ppu]
            /\ LastOpcode = 173 => (cpu.a = 0 /\ cpu.zero_flag /\ ~cpu.negative_flag)
            /\ LastOpcode = 141 => cpu.a = last.cpu.a

\* LDA $0800 with A = 7: the read of 0x0800 misses, A becomes 0 and the step
\* ends at the next instruction
C6_Witness ==
    /\ Stepped(173) /\ last.cpu.a = 7
    /\ last.log[Len(last.log)] = Access("r", "main", 2048, 0)
    /\ cpu.a = 0 /\ cpu.zero_flag /\ cpu.pc = 32771
    /\ fault = "none"

\* the palette addresses of the PPU's bus, 0x3f00..0x3fff
PaletteAddrs == 16128..16383

\* the palette cell an address names when every address aliases
\* 0x3f00 + (a mod 32) and 0x3f10, 0x3f14, 0x3f18, 0x3f1c alias 0x3f00,
\* 0x3f04, 0x3f08, 0x3f0c
PaletteCell(a) ==
    IF (a % 32) \in {16, 20, 24, 28} THEN (a % 32) - 16 ELSE a % 32

\* C38: in the PPU's internal address space every palette address a in
\* 0x3F00..0x3FFF aliases 0x3F00 + (a mod 32), and 0x3F10, 0x3F14, 0x3F18,
\* 0x3F1C additionally alias 0x3F00, 0x3F04, 0x3F08, 0x3F0C: a byte written
\* to any palette address is read back from each of its aliases (a write to
\* 0x3F30 is read back at 0x3F10 and at 0x3F00).
C38_PaletteAliases ==
    (/\ last.op = "bus_write" /\ last.arg.bus = "ppu"
     /\ last.arg.addr \in PaletteAddrs) =>
        \A y \in PaletteAddrs :
            PaletteCell(y) = PaletteCell(last.arg.addr) =>
                Answer(Machine(FALSE), "ppu", y) =
                    [v |-> last.arg.value, fault |-> "none"]

---------------------------------------------------------------------------
(* SpecRam: Ram::write and Ram::read on a Ram fresh from Ram::create().    *)
(* hist.written remembers, beside the Ram, the last value written to each  *)
(* address.                                                                *)

MaxRamOps == 3

RamSamples == {0, 16, 255, 256, 32768, 65535}

RamValues == {0, 1, 255}

InitRam ==
    /\ cpu = CpuNew
    /\ ram = RamCreate
    /\ hist = [steps |-> 0, written |-> <<>>]
    /\ InitRest

RamWriteOp ==
    /\ fault = "none"
    /\ hist.steps < MaxRamOps
    /\ \E addr \in RamSamples, value \in RamValues :
        /\ ram' = RamWrite(ram, addr, value)
        /\ last' = [Op("ram_write", addr, 0, Machine(FALSE)) EXCEPT !.log = <<>>]
        /\ hist' = [steps |-> hist.steps + 1,
                    written |-> (addr :> value) @@ hist.written]
    /\ prev' = last
    /\ UNCHANGED <<cpu, ppu, pattern_tables, nametables, pallettes, fault>>

\* indexing the HashMap by a key it does not hold panics
RamReadOp ==
    /\ fault = "none"
    /\ hist.steps < MaxRamOps
    /\ \E addr \in RamSamples :
        IF RamHas(ram, addr)
        THEN /\ last' = Op("ram_read", addr, RamRead(ram, addr), Machine(FALSE))
             /\ fault' = "none"
        ELSE /\ last' = Op("ram_read", addr, 0, Machine(FALSE))
             /\ fault' = "ram_missing_key"
    /\ prev' = last
    /\ hist' = [hist EXCEPT !.steps = @ + 1]
    /\ UNCHANGED <<cpu, ram, ppu, pattern_tables, nametables, pallettes>>

NextRam == RamWriteOp \/ RamReadOp

SpecRam == InitRam /\ [][NextRam]_vars

\* C7: read(addr) returns the value of the most recent write(addr, _), and 0
\* for an address that was never written; no address causes an error.
C7_ReadLastWriteOrZero ==
    /\ fault = "none"
    /\ last.op = "ram_read" =>
        last.ret = IF last.arg \in DOMAIN hist.written
                   THEN hist.written[last.arg] ELSE 0

---------------------------------------------------------------------------
(* SpecBranch: one step over each of the eight branch instructions, with   *)
(* every operand byte and every value of the four flags they test, at      *)
(* addresses in the middle and at both ends of the address space.          *)

MaxBranchSteps == 1

\* BPL BMI BVC BVS BCC BCS BNE BEQ
BranchOpcodes == {16, 48, 80, 112, 144, 176, 208, 240}

BranchPCs == {0, 32768, 65533, 65535}

InitBranch ==
    /\ cpu \in { [CpuNew EXCEPT !.pc = p, !.zero_flag = z, !.carry_flag = c,
                                !.negative_flag = n, !.overflow_flag = v] :
                    p \in BranchPCs, z \in BOOLEAN, c \in BOOLEAN,
                    n \in BOOLEAN, v \in BOOLEAN }
    /\ ram \in { (cpu.pc :> op) @@ (((cpu.pc + 1) % 65536) :> d) :
                    op \in BranchOpcodes, d \in Byte }
    /\ hist = [steps |-> 0]
    /\ InitRest

BranchStep ==
    /\ hist.steps < MaxBranchSteps
    /\ Step
    /\ hist' = [hist EXCEPT !.steps = @ + 1]

NextBranch == BranchStep

SpecBranch == InitBranch /\ [][NextBranch]_vars

\* the condition each branch opcode tests, on the flags c
BranchTaken(opcode, c) ==
    CASE opcode = 16  -> ~c.negative_flag
      [] opcode = 48  -> c.negative_flag
      [] opcode = 80  -> ~c.overflow_flag
      [] opcode = 112 -> c.overflow_flag
      [] opcode = 144 -> ~c.carry_flag
      [] opcode = 176 -> c.carry_flag
      [] opcode = 208 -> ~c.zero_flag
      [] opcode = 240 -> c.zero_flag

\* the operand byte d read as a two's complement number
Signed8(d) == IF d < 128 THEN d ELSE d - 256

\* the operand byte of the last step: the byte after its opcode
BranchOperand == last.dev.ram[(last.cpu.pc + 1) % 65536]

\* C8: a step over a branch at P with operand byte d leaves
\* PC = (P + 2 + signed8(d)) mod 2^16 if the branch condition holds and
\* PC = P + 2 otherwise.
C8_BranchTarget ==
    (\E opcode \in BranchOpcodes : Stepped(opcode)) =>
        /\ fault = "none"
        /\ cpu.pc = IF BranchTaken(LastOpcode, last.cpu)
                    THEN (last.cpu.pc + 2 + Signed8(BranchOperand) + 65536) % 65536
                    ELSE (last.cpu.pc + 2) % 65536

---------------------------------------------------------------------------
(* SpecSlo: one step over SLO in each of its seven addressing modes, with  *)
(* every byte at the effective address.  X = 0xf5 and Y = 0x20.            *)

MaxSloSteps == 1

\* each case: the instruction bytes at 0x8000, the pointer bytes its
\* addressing mode reads, and the effective address they give
SloCases ==
    { [code |-> <<7, 16>>,     ptr |-> <<>>,                   ea |-> 16],    \* zp  $10
      [code |-> <<23, 16>>,    ptr |-> <<>>,                   ea |-> 5],     \* zpx $10,X
      [code |-> <<15, 16, 3>>, ptr |-> <<>>,                   ea |-> 784],   \* abs $0310
      [code |-> <<31, 16, 3>>, ptr |-> <<>>,                   ea |-> 1029],  \* abx $0310,X
      [code |-> <<27, 16, 3>>, ptr |-> <<>>,                   ea |-> 816],   \* aby $0310,Y
      [code |-> <<3, 16>>,     ptr |-> (5 :> 64) @@ (6 :> 2),  ea |-> 576],   \* ($10,X) -> $0240
      [code |-> <<19, 16>>,    ptr |-> (16 :> 64) @@ (17 :> 2), ea |-> 608] } \* ($10),Y -> $0240+Y

SloOpcodes == { c.code[1] : c \in SloCases }

SloAccs == {0, 1, 2, 85, 128, 170, 255}

\* the memory of a case: the code at 0x8000, the pointer bytes, and value at
\* the effective address
SloMemory(c, value) ==
    [k \in {32768 + i - 1 : i \in 1..Len(c.code)} \cup DOMAIN c.ptr \cup {c.ea} |->
        IF k = c.ea THEN value
        ELSE IF k \in DOMAIN c.ptr THEN c.ptr[k]
        ELSE c.code[k - 32768 + 1]]

InitSlo ==
    /\ \E c \in SloCases, value \in Byte :
        /\ ram = SloMemory(c, value)
        /\ hist = [steps |-> 0, ea |-> c.ea, len |-> Len(c.code)]
    /\ cpu \in { [CpuNew EXCEPT !.pc = 32768, !.x = 245, !.y = 32,
                                !.a = a, !.carry_flag = k] :
                    a \in SloAccs, k \in BOOLEAN }
    /\ InitRest

SloStep ==
    /\ hist.steps < MaxSloSteps
    /\ Step
    /\ hist' = [hist EXCEPT !.steps = @ + 1]

NextSlo == SloStep

SpecSlo == InitSlo /\ [][NextSlo]_vars

\* C9: SLO on an effective address holding m, with accumulator a, leaves
\* memory = (2m) mod 256, carry = bit 7 of m, A = a OR the new memory value,
\* and zero/negative computed from the new A.
C9_SloShiftsThenOrs ==
    (\E opcode \in SloOpcodes : Stepped(opcode)) =>
        LET m      == last.dev.ram[hist.ea]
            a      == last.cpu.a
            newmem == (2 * m) % 256
            newa   == BitOr(a, newmem)
        IN  /\ fault = "none"
            /\ ram = [last.dev.ram EXCEPT ![hist.ea] = newmem]
            /\ cpu.carry_flag = (m >= 128)
            /\ cpu.a = newa
            /\ cpu.zero_flag = (newa = 0)
            /\ cpu.negative_flag = (newa >= 128)
            /\ cpu.pc = last.cpu.pc + hist.len

\* SLO $10 with 0b1000_0001 at 0x0010 and A = 0: carry set, memory
\* 0b0000_0010, A = 0b0000_0010
C9_Witness ==
    /\ Stepped(7) /\ hist.ea = 16
    /\ last.dev.ram[16] = 129 /\ last.cpu.a = 0
    /\ cpu.carry_flag /\ ram[16] = 2 /\ cpu.a = 2
    /\ ~cpu.zero_flag /\ ~cpu.negative_flag
    /\ fault = "none"

---------------------------------------------------------------------------
(* SpecPpu: the CPU writes and reads PPU registers through its bus at      *)
(* 0x2000 + register, and the driver calls set_vblank and reset_vblank.    *)
(* hist remembers which of the two calls came last, the last byte written  *)
(* to the control register (-1: none yet), the number of status reads      *)
(* since the last set_vblank, and the address latch: the number n of       *)
(* address-port writes since the last status read (-1: no status read      *)
(* yet), the byte h the first of them wrote, and whether the data port was *)
(* accessed after it.                                                      *)

MaxPpuOps == 3

\* control, mask, status, address port, data port
PpuRegs == {0, 1, 2, 6, 7}

PpuValues == {0, 8, 16, 127, 128, 255}

\* the address latch after a write of value to register reg
LatchWrite(latch, reg, value) ==
    IF reg = 6 /\ latch.n >= 0 THEN
        [latch EXCEPT !.n = @ + 1, !.h = IF latch.n = 0 THEN value ELSE @]
    ELSE IF reg = 7 /\ latch.n >= 1 THEN [latch EXCEPT !.dirty = TRUE]
    ELSE latch

\* the address latch after a read of register reg
LatchRead(latch, reg) ==
    IF reg = 2 THEN [n |-> 0, h |-> 0, dirty |-> FALSE]
    ELSE IF reg = 7 /\ latch.n >= 1 THEN [latch EXCEPT !.dirty = TRUE]
    ELSE latch

InitPpu ==
    /\ cpu = CpuNew
    /\ ram = RamCreate
    /\ hist = [steps |-> 0, vblank_call |-> "none", control |-> -1,
               status_reads |-> 0,
               latch |-> [n |-> -1, h |-> 0, dirty |-> FALSE]]
    /\ InitRest

PpuWriteOp ==
    /\ fault = "none"
    /\ hist.steps < MaxPpuOps
    /\ \E reg \in PpuRegs, value \in PpuValues, chk \in BOOLEAN :
        \E m \in { AscWrite(Machine(chk), "main", 8192 + reg, value) } :
            /\ Becomes(m)
            /\ last' = Op("ppu_write", reg, 0, m)
            /\ hist' = [hist EXCEPT !.steps = @ + 1,
                                    !.control = IF reg = 0 THEN value ELSE @,
                                    !.latch = LatchWrite(@, reg, value)]
    /\ prev' = last

PpuReadOp ==
    /\ fault = "none"
    /\ hist.steps < MaxPpuOps
    /\ \E reg \in PpuRegs, chk \in BOOLEAN :
        \E r \in { AscRead(Machine(chk), "main", 8192 + reg) } :
            /\ Becomes(r.m)
            /\ last' = Op("ppu_read", reg, r.v, r.m)
            /\ hist' = [hist EXCEPT !.steps = @ + 1,
                                    !.status_reads = IF reg = 2 THEN @ + 1 ELSE @,
                                    !.latch = LatchRead(@, reg)]
    /\ prev' = last

SetVblankOp ==
    /\ fault = "none"
    /\ hist.steps < MaxPpuOps
    /\ ppu' = set_vblank(ppu)
    /\ last' = Op("set_vblank", 0, 0, Machine(FALSE))
    /\ hist' = [hist EXCEPT !.steps = @ + 1, !.vblank_call = "set",
                            !.status_reads = 0]
    /\ prev' = last
    /\ UNCHANGED <<cpu, ram, pattern_tables, nametables, pallettes, fault>>

ResetVblankOp ==
    /\ fault = "none"
    /\ hist.steps < MaxPpuOps
    /\ ppu' = reset_vblank(ppu)
    /\ last' = Op("reset_vblank", 0, 0, Machine(FALSE))
    /\ hist' = [hist EXCEPT !.steps = @ + 1, !.vblank_call = "reset"]
    /\ prev' = last
    /\ UNCHANGED <<cpu, ram, pattern_tables, nametables, pallettes, fault>>

NextPpu == PpuWriteOp \/ PpuReadOp \/ SetVblankOp \/ ResetVblankOp

SpecPpu == InitPpu /\ [][NextPpu]_vars

\* C10: should_nmi() is true exactly when set_vblank() was called more
\* recently than reset_vblank() and bit 7 of the most recent control-register
\* write is set (so after a control write of 0x80 alone it is false until
\* set_vblank() is called), and a status-register read never changes it.
C10_NmiIffVblankAndEnabled ==
    /\ should_nmi(ppu) <=> (hist.vblank_call = "set" /\ hist.control >= 128)
    /\ (last.op = "ppu_read" /\ last.arg = 2) =>
            should_nmi(ppu) = should_nmi(last.ppu)

\* control <- 0x80, set_vblank(), then a status read: the read returns the
\* vblank bit and clears it in the status register, and should_nmi() stays true
C10_Witness ==
    /\ last.op = "ppu_read" /\ last.arg = 2 /\ last.ret = 128
    /\ prev.op = "set_vblank" /\ ~should_nmi(prev.ppu)
    /\ hist.control = 128 /\ hist.vblank_call = "set"
    /\ ppu.status = 0
    /\ should_nmi(last.ppu) /\ should_nmi(ppu)

\* the byte the last register write wrote
LastWritten == last.log[1].value

StatusRead == last.op = "ppu_read" /\ last.arg = 2

AddrWrite == last.op = "ppu_write" /\ last.arg = 6

\* C17, as stated: after set_vblank(), the first read of the PPU status
\* register returns a byte with bit 7 set, every later status read returns
\* bit 7 clear until set_vblank() is called again, and immediately after
\* every status read the address-latch write toggle is false.
C17_FirstStatusReadSeesVblank ==
    StatusRead =>
        /\ hist.vblank_call # "none" =>
                (BitAt(last.ret, 7) = 1 <=> hist.status_reads = 1)
        /\ ~ppu.first_byte

\* C17, amended: the first status read after set_vblank() returns bit 7 set
\* unless reset_vblank() was called in between, in which case it returns
\* bit 7 clear; every later status read returns bit 7 clear until
\* set_vblank() is called again; and immediately after every status read the
\* address-latch write toggle is false.
C17_FirstStatusReadUnlessReset ==
    StatusRead =>
        /\ hist.vblank_call # "none" =>
                (BitAt(last.ret, 7) = 1 <=>
                    (hist.status_reads = 1 /\ hist.vblank_call = "set"))
        /\ ~ppu.first_byte

\* set_vblank(), a status read that returns 0x80, and a second status read
\* that returns 0
C17_Witness ==
    /\ StatusRead /\ last.ret = 0 /\ hist.status_reads = 2
    /\ prev.op = "ppu_read" /\ prev.arg = 2 /\ prev.ret = 128
    /\ hist.vblank_call = "set"
    /\ ~ppu.first_byte /\ ppu.vblank

\* C18: following a status read and with no data-port access in between,
\* two writes h then l to the PPU address port leave the VRAM address equal
\* to 256*h + l; the toggle flips on every address-port write, and after any
\* sequence of address-port writes a status read makes the next address-port
\* write be taken as the high byte.
C18_AddressLatch ==
    AddrWrite =>
        /\ ppu.first_byte = ~last.ppu.first_byte
        /\ (hist.latch.n = 2 /\ ~hist.latch.dirty) =>
                ppu.addr = 256 * hist.latch.h + LastWritten
        /\ hist.latch.n = 1 =>
                /\ ppu.addr = 256 * LastWritten
                /\ ppu.first_byte

\* one address-port write of 0x7f, a status read, and then a write of 0x08:
\* it is the high byte although the toggle had been left at the low byte
C18_Witness ==
    /\ AddrWrite /\ LastWritten = 8 /\ hist.latch.n = 1
    /\ prev.op = "ppu_read" /\ prev.arg = 2
    /\ prev.ppu.first_byte /\ prev.ppu.addr = 32512
    /\ ~last.ppu.first_byte
    /\ ppu.addr = 2048 /\ ppu.first_byte

ControlWrite == last.op = "ppu_write" /\ last.arg = 0

\* C20, as stated: after a control-register write of value v, the sprite
\* pattern-table base is 0x1000 if bit 3 of v is set and 0 otherwise, and the
\* background pattern-table base is 0x1000 if bit 4 of v is set and 0
\* otherwise.
C20_PatternTableBases ==
    ControlWrite =>
        /\ ppu.sprite_table_addr = IF BitAt(LastWritten, 3) = 1 THEN 4096 ELSE 0
        /\ ppu.background_table_addr = IF BitAt(LastWritten, 4) = 1 THEN 4096 ELSE 0

\* C20, amended: after a control-register write of value v, the sprite
\* pattern-table base is 0x1000 if bit 3 of v is set and 0 otherwise, and the
\* background pattern-table base, which is kept as a tile number, is 0x100
\* if bit 4 of v is set and 0 otherwise: the tile at byte address 0x1000.
C20_BackgroundBaseInTiles ==
    ControlWrite =>
        /\ ppu.sprite_table_addr = IF BitAt(LastWritten, 3) = 1 THEN 4096 ELSE 0
        /\ ppu.background_table_addr = IF BitAt(LastWritten, 4) = 1 THEN 256 ELSE 0
        /\ TileAddress(ppu.background_table_addr) =
                IF BitAt(LastWritten, 4) = 1 THEN 4096 ELSE 0

\* a control write of 0x10 after one of 0x08: the background base becomes
\* tile 0x100 and the sprite base goes back to 0
C20_Witness ==
    /\ ControlWrite /\ LastWritten = 16
    /\ last.ppu.sprite_table_addr = 4096 /\ last.ppu.background_table_addr = 0
    /\ ppu.sprite_table_addr = 0 /\ ppu.background_table_addr = 256

\* the fields of the Ppu a control write derives from the control byte
ControlFields ==
    {"control", "nametable_base", "vram_increment", "sprite_table_addr",
     "background_table_addr", "sprite_size", "job", "nmi"}

\* C33: a write to the PPU control register changes only the control byte
\* and the fields derived from it; the latched VRAM address, the
\* address-latch write toggle, the status byte, the vblank boolean and the
\* PPU's internal memory are unchanged.
C33_ControlWriteFrame ==
    ControlWrite =>
        /\ fault = "none"
        /\ \A f \in DOMAIN ppu \ ControlFields : ppu[f] = last.ppu[f]
        /\ ppu.control = LastWritten
        /\ pattern_tables = last.dev.pattern_tables
        /\ nametables = last.dev.nametables
        /\ pallettes = last.dev.pallettes
        /\ ram = last.dev.ram /\ cpu = last.cpu

\* set_vblank(), the first byte of a VRAM address, then a control write: the
\* half-latched address, the toggle and the vblank state are as before it
C33_Witness ==
    /\ ControlWrite /\ LastWritten = 255
    /\ ppu.control = 255 /\ last.ppu.control = 0
    /\ ppu.first_byte /\ ppu.addr = 127 * 256
    /\ ppu.vblank /\ ppu.status >= 128

\* C34: in every reachable PPU state, the freshly constructed one before any
\* control write included, the derived fields agree with the control byte c:
\* the data-port increment is 32 if bit 2 of c is set and 1 otherwise, and
\* the nametable base is 0x2000 + 0x400 * (c AND 3).
C34_DerivedFieldsFollowControl ==
    /\ VramStep(ppu) = IF BitAt(ppu.control, 2) = 1 THEN 32 ELSE 1
    /\ ppu.nametable_base = 8192 + 1024 * BitAnd(ppu.control, 3)

---------------------------------------------------------------------------
(* SpecProg: the program LDA #$05; STA $10; LDX $10; INX stored at the     *)
(* address the reset vector holds.  The machine is reset and then stepped; *)
(* a second reset may come at any point of the run.  hist counts the       *)
(* resets and the steps since the last one.                                *)

MaxProgSteps == 4

MaxResets == 2

\* LDA #$05; STA $10; LDX $10; INX
ProgBytes == <<169, 5, 133, 16, 166, 16, 232>>

\* 0x0200, 0x4020, 0x8000, 0xfff5 (the program ends just below the vector)
ProgTargets == {512, 16416, 32768, 65525}

ProgRegs == {0, 5, 200}

\* the program at target, and target in the reset vector, low byte first
ProgMemory(target) ==
    [k \in {target + i - 1 : i \in 1..Len(ProgBytes)} \cup {65532, 65533} |->
        IF k = 65532 THEN target % 256
        ELSE IF k = 65533 THEN target \div 256
        ELSE ProgBytes[k - target + 1]]

InitProg ==
    /\ \E target \in ProgTargets : ram = ProgMemory(target)
    /\ cpu \in { [CpuNew EXCEPT !.a = a, !.x = x, !.y = 17,
                                !.zero_flag = z, !.negative_flag = n,
                                !.carry_flag = n, !.overflow_flag = z] :
                    a \in ProgRegs, x \in ProgRegs, z \in BOOLEAN, n \in BOOLEAN }
    /\ hist = [resets |-> 0, steps |-> 0]
    /\ InitRest

\* self.cpu.reset(&mut self.asc)
ResetOp ==
    /\ fault = "none"
    /\ hist.resets < MaxResets
    /\ \E chk \in BOOLEAN :
        \E m \in { reset(Machine(chk)) } :
            /\ Becomes(m)
            /\ last' = Op("reset", 0, 0, m)
    /\ hist' = [resets |-> hist.resets + 1, steps |-> 0]
    /\ prev' = last

ProgStep ==
    /\ hist.resets > 0
    /\ hist.steps < MaxProgSteps
    /\ Step
    /\ hist' = [hist EXCEPT !.steps = @ + 1]

NextProg == ResetOp \/ ProgStep

SpecProg == InitProg /\ [][NextProg]_vars

\* C11: with the bytes of LDA #$05; STA $10; LDX $10; INX stored at the
\* address held in the reset vector, reset() followed by four
\* single-instruction steps yields A = 5, memory[0x10] = 5, X = 6, zero flag
\* clear and negative flag clear.
C11_ProgramRuns ==
    (hist.resets > 0 /\ hist.steps = 4) =>
        /\ fault = "none"
        /\ cpu.a = 5
        /\ 16 \in DOMAIN ram /\ ram[16] = 5
        /\ cpu.x = 6
        /\ ~cpu.zero_flag /\ ~cpu.negative_flag

\* the run from 0x8000 that started with A = 200, X = 0 and both flags set:
\* the fourth step was the INX at 0x8006
C11_Witness ==
    /\ hist.resets = 1 /\ hist.steps = 4
    /\ Stepped(232) /\ last.cpu.pc = 32774 /\ last.cpu.x = 5
    /\ cpu.a = 5 /\ ram[16] = 5 /\ cpu.x = 6 /\ cpu.pc = 32775
    /\ cpu.carry_flag /\ cpu.overflow_flag
    /\ ~cpu.zero_flag /\ ~cpu.negative_flag
    /\ fault = "none"

\* C13: reset() sets PC to the little-endian 16-bit word stored at
\* 0xFFFC/0xFFFD and leaves A, X, Y, SP, all eight flags, the cycle counter
\* and all memory unchanged.
C13_ResetLoadsVector ==
    last.op = "reset" =>
        /\ fault = "none"
        /\ cpu = [last.cpu EXCEPT !.pc = last.dev.ram[65532] + 256 * last.dev.ram[65533]]
        /\ Machine(FALSE).dev = last.dev
        /\ ppu = last.ppu

\* a reset in the middle of the run from 0x4020: PC was 0x4024 after two
\* steps, with 4 + 3 cycles counted and memory[0x10] written
C13_Witness ==
    /\ last.op = "reset" /\ hist.resets = 2
    /\ last.cpu.pc = 16420 /\ last.cpu.cycles > 0 /\ last.cpu.a = 5
    /\ cpu.pc = 16416 /\ cpu.cycles = last.cpu.cycles /\ cpu.a = 5
    /\ ram[16] = 5 /\ ram[65532] = 32 /\ ram[65533] = 64
    /\ fault = "none"

---------------------------------------------------------------------------
(* SpecOpcode: one step over each of the 256 opcode bytes at 0x8000, and   *)
(* one step with PC at 0x4018, which no device answers.  The operand bytes *)
(* are $10 $03 and the interrupt vector holds 0x9000.                      *)

MaxOpcodeSteps == 1

\* 0x8000 (storage) and 0x4018 (no device)
OpcodePCs == {32768, 16408}

OpcodeRegs == {0, 129}

\* the opcodes run_instruction has no arm for
Absent(opcode) == OpTable[opcode + 1][1] = "none"

InitOpcode ==
    /\ \E opcode \in Byte :
        ram = (32768 :> opcode) @@ (32769 :> 16) @@ (32770 :> 3)
                @@ (65534 :> 0) @@ (65535 :> 144)
    /\ cpu \in { [CpuNew EXCEPT !.pc = pc, !.a = a, !.x = a, !.y = 1,
                                !.carry_flag = k, !.negative_flag = k] :
                    pc \in OpcodePCs, a \in OpcodeRegs, k \in BOOLEAN }
    /\ hist = [steps |-> 0]
    /\ InitRest

OpcodeStep ==
    /\ hist.steps < MaxOpcodeSteps
    /\ Step
    /\ hist' = [hist EXCEPT !.steps = @ + 1]

NextOpcode == OpcodeStep

SpecOpcode == InitOpcode /\ [][NextOpcode]_vars

\* C12: a step whose fetched opcode byte is absent from the catalog ends in
\* a fatal state, before any register, flag, PC, SP, cycle counter or memory
\* cell has been modified; a bus miss is a different outcome: the fetch
\* returns 0 and the step goes on without a fault.
C12_UnknownOpcodeAborts ==
    /\ \A opcode \in Byte :
        (Stepped(opcode) /\ Absent(opcode)) =>
            /\ fault = "unimplemented_opcode"
            /\ ~ENABLED OpcodeStep
            /\ cpu = last.cpu
            /\ Machine(FALSE).dev = last.dev
            /\ ppu = last.ppu
    /\ (last.op = "step" /\ MainDevice(last.cpu.pc) = "none") =>
            /\ fault = "none"
            /\ last.log[1] = Access("r", "main", last.cpu.pc, 0)

\* opcode 0x02 at 0x8000 is in no arm: the step aborts with A, X and the
\* carry as they were
C12_Witness ==
    /\ Stepped(2) /\ Absent(2)
    /\ fault = "unimplemented_opcode"
    /\ last.cpu.a = 129 /\ last.cpu.carry_flag
    /\ cpu = last.cpu /\ cpu.pc = 32768 /\ cpu.cycles = 0

---------------------------------------------------------------------------
(* SpecFlow: the three ways into a subroutine and back.  In scenario "nmi" *)
(* the driver calls nmi() with PC at P; in "brk" a BRK is stored at P; in  *)
(* "jsr" a JSR to T is stored at P.  The routine entered is PHA; PLA       *)
(* followed by RTI (RTS in "jsr"), so it uses the stack and leaves it      *)
(* balanced.  All three vectors hold 0x9000.  hist keeps the scenario, the *)
(* Cpu the scenario started with and the routine's address.                *)

MaxFlowSteps == 4

FlowScenarios == {"nmi", "brk", "jsr"}

\* 0x8000, 0x80fe (P + 2 is in the next page), 0xfffd and 0xfffe (the
\* instruction ends at, or runs over, the top of the address space)
FlowPCs == {32768, 33022, 65533, 65534}

\* the stack pointers: the pushes wrap from 0x0100 to 0x01ff for 2, 1, 0
FlowSPs == {255, 2, 1, 0}

\* the status bytes the scenario starts with
FlowStatus == {0, 36, 101, 154, 255}

\* 0x9000 and 0x0234
FlowTargets == {36864, 564}

FlowVector == 144 * 256

FlowCpu(pc, sp, w) ==
    [CpuNew EXCEPT !.pc = pc, !.sp = sp, !.a = 77,
                   !.carry_flag = BitAt(w, 0) = 1,
                   !.zero_flag = BitAt(w, 1) = 1,
                   !.interrupt_flag = BitAt(w, 2) = 1,
                   !.decimal_flag = BitAt(w, 3) = 1,
                   !.break_cmd_flag = BitAt(w, 4) = 1,
                   !.reserved_flag = BitAt(w, 5) = 1,
                   !.overflow_flag = BitAt(w, 6) = 1,
                   !.negative_flag = BitAt(w, 7) = 1]

\* PHA; PLA; and the return instruction, at address t
FlowRoutine(t, return) == (t :> 72) @@ ((t + 1) :> 104) @@ ((t + 2) :> return)

\* the three vectors, low byte first
FlowVectors ==
    [k \in 65530..65535 |-> IF k % 2 = 0 THEN FlowVector % 256 ELSE FlowVector \div 256]

\* memory: the instruction bytes win over the vector bytes where a BRK or
\* JSR at the top of the address space overlaps them (0xfffe holds 0x00 in
\* either reading)
FlowMemory(scenario, p, t) ==
    IF scenario = "nmi" THEN FlowRoutine(FlowVector, 64) @@ FlowVectors
    ELSE IF scenario = "brk" THEN (p :> 0) @@ FlowRoutine(FlowVector, 64) @@ FlowVectors
    ELSE (p :> 32) @@ ((p + 1) % 65536 :> t % 256) @@ ((p + 2) % 65536 :> t \div 256)
            @@ FlowRoutine(t, 96)

InitFlow ==
    /\ \E scenario \in FlowScenarios, p \in FlowPCs, sp \in FlowSPs,
          w \in FlowStatus, t \in FlowTargets :
        /\ scenario # "jsr" => t = FlowVector
        /\ ram = FlowMemory(scenario, p, t)
        /\ cpu = FlowCpu(p, sp, w)
        /\ hist = [steps |-> 0, scenario |-> scenario, entry |-> cpu, target |-> t]
    /\ InitRest

\* self.cpu.nmi(&mut self.asc), before the first instruction
NmiOp ==
    /\ fault = "none"
    /\ hist.scenario = "nmi" /\ last.op = "none"
    /\ \E chk \in BOOLEAN :
        \E m \in { nmi(Machine(chk)) } :
            /\ Becomes(m)
            /\ last' = Op("nmi", 0, 0, m)
    /\ prev' = last
    /\ UNCHANGED hist

FlowStep ==
    /\ hist.scenario = "nmi" => last.op # "none"
    /\ hist.steps < MaxFlowSteps
    /\ Step
    /\ hist' = [hist EXCEPT !.steps = @ + 1]

NextFlow == NmiOp \/ FlowStep

SpecFlow == InitFlow /\ [][NextFlow]_vars

\* the stack cell n pushes below the one sp names
StackCell(sp, n) == 256 + ((sp + 256 - n) % 256)

\* the flags, as a byte
Flags(c) == status_to_word(c)

\* C14: nmi() invoked between instructions pushes PC high byte, PC low byte
\* and then the status byte (SP decreases by 3) and sets PC to the word at
\* 0xFFFA/0xFFFB; if the handler leaves the stack balanced, a following RTI
\* restores PC to the interrupted address, all eight flags to their pre-NMI
\* values and SP to its pre-NMI value.
C14_NmiThenRti ==
    /\ last.op = "nmi" =>
        /\ fault = "none"
        /\ last.log = << Access("r", "main", 65530, last.dev.ram[65530]),
                         Access("r", "main", 65531, last.dev.ram[65531]),
                         Access("w", "main", StackCell(last.cpu.sp, 0), last.cpu.pc \div 256),
                         Access("w", "main", StackCell(last.cpu.sp, 1), last.cpu.pc % 256),
                         Access("w", "main", StackCell(last.cpu.sp, 2), Flags(last.cpu)) >>
        /\ cpu = [last.cpu EXCEPT !.sp = (last.cpu.sp + 253) % 256,
                                  !.pc = last.dev.ram[65530] + 256 * last.dev.ram[65531]]
    /\ (hist.scenario = "nmi" /\ Stepped(64)) =>
        /\ fault = "none"
        /\ cpu.pc = hist.entry.pc
        /\ Flags(cpu) = Flags(hist.entry)
        /\ cpu.sp = hist.entry.sp

\* NMI at PC = 0x80fe with SP = 1 and status 0x9a: the pushes wrap around
\* the stack page, the handler's PLA clears the zero and negative flags, and
\* the RTI brings back PC, SP and the status byte
C14_Witness ==
    /\ hist.scenario = "nmi" /\ Stepped(64) /\ hist.steps = 3
    /\ hist.entry.pc = 33022 /\ hist.entry.sp = 1 /\ Flags(hist.entry) = 154
    /\ Flags(last.cpu) = 24 /\ last.cpu.sp = 254 /\ last.cpu.pc = 36866
    /\ ram[257] = 128 /\ ram[256] = 254 /\ ram[511] = 154
    /\ cpu.pc = 33022 /\ cpu.sp = 1 /\ Flags(cpu) = 154
    /\ fault = "none"

\* C15: BRK at address P performs, in this order: push P+2 (high byte
\* first), set the break and reserved flags, push the status byte (with
\* break and reserved bits set and the interrupt-disable bit as it was before
\* the BRK), load PC from the word at 0xFFFE/0xFFFF, set interrupt-disable;
\* SP ends 3 lower, and a following RTI with a balanced stack resumes at P+2.
C15_BrkSequence ==
    /\ (hist.scenario = "brk" /\ hist.steps = 1 /\ Stepped(0)) =>
        /\ fault = "none"
        /\ last.log = << Access("r", "main", last.cpu.pc, 0),
                         Access("w", "main", StackCell(last.cpu.sp, 0),
                                ((last.cpu.pc + 2) % 65536) \div 256),
                         Access("w", "main", StackCell(last.cpu.sp, 1),
                                ((last.cpu.pc + 2) % 65536) % 256),
                         Access("w", "main", StackCell(last.cpu.sp, 2),
                                BitOr(Flags(last.cpu), 48)),
                         Access("r", "main", 65534, last.dev.ram[65534]),
                         Access("r", "main", 65535, last.dev.ram[65535]) >>
        /\ cpu = [last.cpu EXCEPT !.sp = (last.cpu.sp + 253) % 256,
                                  !.pc = last.dev.ram[65534] + 256 * last.dev.ram[65535],
                                  !.break_cmd_flag = TRUE,
                                  !.reserved_flag = TRUE,
                                  !.interrupt_flag = TRUE,
                                  !.cycles = last.cpu.cycles + 7]
    /\ (hist.scenario = "brk" /\ Stepped(64)) =>
        /\ fault = "none"
        /\ cpu.pc = (hist.entry.pc + 2) % 65536
        /\ cpu.sp = hist.entry.sp

\* C16: JSR at address P with target T pushes the 16-bit value P+2 (high
\* byte first, then low byte) and sets PC = T; an RTS executed with the
\* stack balanced since that JSR sets PC = P+3 and restores SP to its value
\* before the JSR, for every P, T and SP.
C16_JsrThenRts ==
    /\ (hist.scenario = "jsr" /\ hist.steps = 1 /\ Stepped(32)) =>
        /\ fault = "none"
        /\ SubSeq(last.log, 4, 5) =
                << Access("w", "main", StackCell(last.cpu.sp, 0),
                          ((last.cpu.pc + 2) % 65536) \div 256),
                   Access("w", "main", StackCell(last.cpu.sp, 1),
                          ((last.cpu.pc + 2) % 65536) % 256) >>
        /\ Len(last.log) = 5
        /\ cpu = [last.cpu EXCEPT !.sp = (last.cpu.sp + 254) % 256,
                                  !.pc = hist.target,
                                  !.cycles = last.cpu.cycles + 6]
    /\ (hist.scenario = "jsr" /\ Stepped(96)) =>
        /\ fault = "none"
        /\ cpu.pc = (hist.entry.pc + 3) % 65536
        /\ cpu.sp = hist.entry.sp

---------------------------------------------------------------------------
(* SpecVram: a burst through the data port.  The CPU writes the control    *)
(* register, latches the VRAM address A with two address-port writes,      *)
(* writes n bytes to the data port, latches A again and reads the data     *)
(* port n times.  hist holds the burst, the register accesses still to do, *)
(* the number of data-port writes done and the bytes read back.            *)

MaxBurst == 2

\* 0x0000, 0x1fff (the last pattern-table byte), 0x2000, 0x3ee0 and 0x3eff
\* (the nametable mirror ends), 0x3f00 and 0x3f10 (palette), 0x3fe0 and
\* 0x3fff (the last mapped addresses), 0x4000 and 0xffff (no device)
VramAddrs == {0, 8191, 8192, 16096, 16127, 16128, 16144, 16352, 16383, 16384, 65535}

\* control bytes: increment across (1) and down (32)
VramControls == {0, 4}

VramBytes == {17, 34}

RegWrite(reg, value) == [op |-> "w", reg |-> reg, value |-> value]

RegRead(reg) == [op |-> "r", reg |-> reg, value |-> 0]

VramScript(control, a, bytes) ==
    << RegWrite(0, control), RegWrite(6, a \div 256), RegWrite(6, a % 256) >>
    \o [k \in 1..Len(bytes) |-> RegWrite(7, bytes[k])]
    \o << RegWrite(6, a \div 256), RegWrite(6, a % 256) >>
    \o [k \in 1..Len(bytes) |-> RegRead(7)]

InitVram ==
    /\ cpu = CpuNew
    /\ ram = RamCreate
    /\ \E control \in VramControls, a \in VramAddrs, n \in 1..MaxBurst :
        \E bytes \in [1..n -> VramBytes] :
            hist = [ a |-> a, s |-> IF control = 4 THEN 32 ELSE 1, bytes |-> bytes,
                     todo |-> VramScript(control, a, bytes),
                     written |-> 0, got |-> <<>> ]
    /\ InitRest

\* the CPU's next register write of the burst
VramWriteOp ==
    /\ fault = "none"
    /\ hist.todo # <<>> /\ Head(hist.todo).op = "w"
    /\ \E chk \in BOOLEAN :
        \E m \in { AscWrite(Machine(chk), "main", 8192 + Head(hist.todo).reg,
                            Head(hist.todo).value) } :
            /\ Becomes(m)
            /\ last' = Op("vram_write", Head(hist.todo).reg, 0, m)
    /\ hist' = [hist EXCEPT !.todo = Tail(@),
                            !.written = IF Head(hist.todo).reg = 7 THEN @ + 1 ELSE @]
    /\ prev' = last

\* the CPU's next register read of the burst
VramReadOp ==
    /\ fault = "none"
    /\ hist.todo # <<>> /\ Head(hist.todo).op = "r"
    /\ \E chk \in BOOLEAN :
        \E r \in { AscRead(Machine(chk), "main", 8192 + Head(hist.todo).reg) } :
            /\ Becomes(r.m)
            /\ last' = Op("vram_read", Head(hist.todo).reg, r.v, r.m)
            /\ hist' = [hist EXCEPT !.todo = Tail(@), !.got = Append(@, r.v)]
    /\ prev' = last

NextVram == VramWriteOp \/ VramReadOp

SpecVram == InitVram /\ [][NextVram]_vars

\* the internal-bus address of the burst's k-th transfer
BurstAddr(k) == hist.a + (k - 1) * hist.s

\* the storage cell behind an internal-bus address
Cell(addr) == << PpuBusDevice(addr), Mirrored("ppu", addr) >>

\* every address of the burst has a device
BurstMapped == \A k \in 1..Len(hist.bytes) : PpuBusDevice(BurstAddr(k)) # "none"

\* no two addresses of the burst are mirrors of one cell
BurstDistinct ==
    \A j, k \in 1..Len(hist.bytes) : j # k => Cell(BurstAddr(j)) # Cell(BurstAddr(k))

DataWrite == last.op = "vram_write" /\ last.arg = 7

DataRead == last.op = "vram_read" /\ last.arg = 7

BurstDone == hist.todo = <<>> /\ last.op = "vram_read"

\* what the burst's data-port write number hist.written did: the byte went
\* to the internal bus at the burst's address, and then the address advanced
WroteAt ==
    /\ fault = "none"
    /\ last.ppu.addr = BurstAddr(hist.written)
    /\ last.log = << Access("w", "main", 8199, hist.bytes[hist.written]),
                     Access("w", "ppu", BurstAddr(hist.written), hist.bytes[hist.written]) >>
    /\ ppu.addr = BurstAddr(hist.written) + hist.s

\* the byte is in the cell behind the address
StoredAt ==
    LET c == Cell(BurstAddr(hist.written))
    IN  /\ c[1] # "none"
        /\ RamHas(Machine(FALSE).dev[c[1]], c[2])
        /\ RamRead(Machine(FALSE).dev[c[1]], c[2]) = hist.bytes[hist.written]

\* what the burst's data-port read number Len(hist.got) did
ReadAt ==
    /\ fault = "none"
    /\ last.ppu.addr = BurstAddr(Len(hist.got))
    /\ last.log[1] = Access("r", "ppu", BurstAddr(Len(hist.got)), last.ret)
    /\ ppu.addr = BurstAddr(Len(hist.got)) + hist.s

\* C19, as stated: with configured increment step s and latched VRAM address
\* A, n consecutive data-port writes store their bytes at internal-bus
\* addresses A, A+s, ..., A+(n-1)s, each access advancing the VRAM address by
\* exactly s after the transfer; re-latching A and performing n data-port
\* reads returns those same bytes in order.
C19_BurstRoundTrip ==
    /\ DataWrite => (WroteAt /\ StoredAt)
    /\ DataRead => ReadAt
    /\ BurstDone => hist.got = hist.bytes

\* C19, amended: the same for the bursts whose addresses all have a device
\* on the internal bus (none above 0x3FFF), the bytes read back being the
\* bytes written when no two of the addresses are mirrors of one cell.
C19_MappedBurstRoundTrip ==
    BurstMapped =>
        /\ DataWrite => (WroteAt /\ StoredAt)
        /\ DataRead => ReadAt
        /\ (BurstDone /\ BurstDistinct) => hist.got = hist.bytes

\* two bytes written downwards from 0x1fff: the first lands in the pattern
\* tables, the second at 0x201f in the nametables, and both are read back
C19_Witness ==
    /\ BurstDone /\ BurstMapped /\ BurstDistinct
    /\ hist.a = 8191 /\ hist.s = 32 /\ hist.bytes = <<17, 34>>
    /\ pattern_tables[8191] = 17 /\ nametables[31] = 34
    /\ hist.got = <<17, 34>>
    /\ ppu.addr = 8191 + 64
    /\ fault = "none"

---------------------------------------------------------------------------
(* SpecDriver: the loop of Machine::power_on over frames, scanlines and    *)
(* PPU ticks, after the reset.  Its locals are kept in hist: the frame     *)
(* (counted from 1), the scanline, the tick, the cycle counter saved when  *)
(* the scanline began, and whether the loop is in the scanline's ticks or  *)
(* at the hooks after them.  hist also counts the instructions of the      *)
(* scanline, lists the hooks called in the frame, counts the nmi() calls,  *)
(* and notes the frame and scanline in which the program enabled the NMI.  *)

MaxFrames == 2

SCANLINES_PER_FRAME == 262

PPU_CYCLES_PER_SCANLINE == 341

\* the programs at 0x8000, each ending in a JMP to itself:
\*   spin:   JMP spin
\*   enable: LDA #$80; STA $2000; JMP *
\*   wait:   LDA $2002; BPL wait; LDA #$80; STA $2000; JMP *
\*   slow:   SLO ($10,X); JMP slow
DriverPrograms ==
    [ spin   |-> <<76, 0, 128>>,
      slow   |-> <<3, 16, 76, 0, 128>>,
      enable |-> <<169, 128, 141, 0, 32, 76, 5, 128>>,
      wait   |-> <<173, 2, 32, 16, 251, 169, 128, 141, 0, 32, 76, 10, 128>> ]

\* the program, an RTI at 0x9000, the NMI vector pointing at it, the reset
\* vector pointing at the program, and a pointer at 0x10 to a zero at 0x0300
DriverMemory(code) ==
    [k \in {32768 + i - 1 : i \in 1..Len(code)}
            \cup {16, 17, 768, 36864, 65530, 65531, 65532, 65533} |->
        IF k = 36864 THEN 64
        ELSE IF k \in {16, 768} THEN 0
        ELSE IF k = 17 THEN 3
        ELSE IF k = 65530 THEN 0
        ELSE IF k = 65531 THEN 144
        ELSE IF k = 65532 THEN 0
        ELSE IF k = 65533 THEN 128
        ELSE code[k - 32768 + 1]]

\* the machine after self.cpu.reset(..) took 0x8000 from the reset vector
InitDriver ==
    /\ \E name \in DOMAIN DriverPrograms : ram = DriverMemory(DriverPrograms[name])
    /\ cpu = [CpuNew EXCEPT !.pc = 32768]
    /\ hist = [ frame |-> 1, scanline |-> 0, tick |-> 0, at |-> "ticks",
                cycles |-> 0, instrs |-> 0, hooks |-> <<>>, nmis |-> 0,
                enabled |-> <<0, 0>> ]
    /\ InitRest

\* a tick loop that stops as soon as the scanline has used its 113 cycles
OverBudget_at_limit(cycles_now) ==
    cycles_now - hist.cycles >= PPU_CYCLES_PER_SCANLINE \div 3

\* the if of the tick loop: did the scanline use up its cycles
OverBudget(cycles_now) ==
    cycles_now - hist.cycles > PPU_CYCLES_PER_SCANLINE \div 3

\* a tick loop that runs an instruction at every tick
DriverTick_every_tick ==
    /\ fault = "none"
    /\ hist.at = "ticks" /\ hist.tick < PPU_CYCLES_PER_SCANLINE
    /\ \E chk \in BOOLEAN :
        \E m \in { read_instruction(Machine(chk)) } :
            /\ Becomes(m)
            /\ last' = Op("tick", hist.tick, 1, m)
            /\ hist' = [hist EXCEPT
                    !.instrs = @ + 1,
                    !.tick = IF OverBudget(m.cpu.cycles) THEN @ ELSE @ + 1,
                    !.at = IF OverBudget(m.cpu.cycles)
                              \/ hist.tick + 1 = PPU_CYCLES_PER_SCANLINE
                           THEN "hooks" ELSE "ticks",
                    !.enabled = IF @ = <<0, 0>> /\ m.ppu.nmi
                                THEN <<hist.frame, hist.scanline>> ELSE @]
    /\ prev' = last

\* one iteration of `for tick in 0..PPU_CYCLES_PER_SCANLINE`
DriverTick ==
    /\ fault = "none"
    /\ hist.at = "ticks" /\ hist.tick < PPU_CYCLES_PER_SCANLINE
    /\ \E chk \in BOOLEAN :
        \E m \in { IF hist.tick % 3 = 0 THEN read_instruction(Machine(chk))
                   ELSE Machine(chk) } :
            /\ Becomes(m)
            /\ last' = Op("tick", hist.tick, IF hist.tick % 3 = 0 THEN 1 ELSE 0, m)
            /\ hist' = [hist EXCEPT
                    !.instrs = IF hist.tick % 3 = 0 THEN @ + 1 ELSE @,
                    !.tick = IF OverBudget(m.cpu.cycles) THEN @ ELSE @ + 1,
                    !.at = IF OverBudget(m.cpu.cycles)
                              \/ hist.tick + 1 = PPU_CYCLES_PER_SCANLINE
                           THEN "hooks" ELSE "ticks",
                    !.enabled = IF @ = <<0, 0>> /\ m.ppu.nmi
                                THEN <<hist.frame, hist.scanline>> ELSE @]
    /\ prev' = last

\* the hooks the driver calls after the ticks of scanline: their names
HooksOf(scanline, p) ==
    (IF scanline = 0 THEN <<"reset_vblank">> ELSE <<>>)
    \o (IF scanline = 241 THEN <<"set_vblank">> ELSE <<>>)
    \o (IF scanline = 241 /\ should_nmi(p) THEN <<"nmi">> ELSE <<>>)

\* the three ifs after the tick loop, with the PPU they leave
HooksPpu(scanline, p) ==
    LET with_p1(p1) == IF scanline = 241 THEN set_vblank(p1) ELSE p1
    IN  with_p1(IF scanline = 0 THEN reset_vblank(p) ELSE p)

\* hooks that poll should_nmi() after every scanline
DriverHooks_nmi_any_scanline ==
    /\ fault = "none"
    /\ hist.at = "hooks"
    /\ hist.scanline = SCANLINES_PER_FRAME - 1 => hist.frame < MaxFrames
    /\ \E chk \in BOOLEAN, p \in { HooksPpu(hist.scanline, ppu) } :
        \E m \in { IF should_nmi(p)
                   THEN nmi([Machine(chk) EXCEPT !.ppu = p])
                   ELSE [Machine(chk) EXCEPT !.ppu = p] } :
            /\ Becomes(m)
            /\ last' = Op("hooks", hist.scanline, 0, m)
            /\ hist' = [hist EXCEPT
                    !.frame = IF hist.scanline = SCANLINES_PER_FRAME - 1 THEN @ + 1 ELSE @,
                    !.scanline = (@ + 1) % SCANLINES_PER_FRAME,
                    !.tick = 0,
                    !.at = "ticks",
                    !.cycles = m.cpu.cycles,
                    !.instrs = 0,
                    !.hooks = IF hist.scanline = SCANLINES_PER_FRAME - 1 THEN <<>>
                              ELSE @ \o HooksOf(hist.scanline, p)
                                     \o (IF should_nmi(p) /\ hist.scanline # 241
                                         THEN <<"nmi">> ELSE <<>>),
                    !.nmis = IF should_nmi(p) THEN @ + 1 ELSE @]
    /\ prev' = last

\* the rest of the scanline's iteration: reset_vblank after scanline 0,
\* set_vblank and the NMI poll after scanline 241; then the next scanline
\* begins and saves the cycle counter
DriverHooks ==
    /\ fault = "none"
    /\ hist.at = "hooks"
    /\ hist.scanline = SCANLINES_PER_FRAME - 1 => hist.frame < MaxFrames
    /\ \E chk \in BOOLEAN, p \in { HooksPpu(hist.scanline, ppu) } :
        \E m \in { IF hist.scanline = 241 /\ should_nmi(p)
                   THEN nmi([Machine(chk) EXCEPT !.ppu = p])
                   ELSE [Machine(chk) EXCEPT !.ppu = p] } :
            /\ Becomes(m)
            /\ last' = Op("hooks", hist.scanline, 0, m)
            /\ hist' = [hist EXCEPT
                    !.frame = IF hist.scanline = SCANLINES_PER_FRAME - 1 THEN @ + 1 ELSE @,
                    !.scanline = (@ + 1) % SCANLINES_PER_FRAME,
                    !.tick = 0,
                    !.at = "ticks",
                    !.cycles = m.cpu.cycles,
                    !.instrs = 0,
                    !.hooks = IF hist.scanline = SCANLINES_PER_FRAME - 1 THEN <<>>
                              ELSE @ \o HooksOf(hist.scanline, p),
                    !.nmis = IF hist.scanline = 241 /\ should_nmi(p) THEN @ + 1 ELSE @]
    /\ prev' = last

NextDriver == DriverTick \/ DriverHooks

SpecDriver == InitDriver /\ [][NextDriver]_vars

\* an instruction ran in the last tick
Executed == last.op = "tick" /\ last.log # <<>>

\* the last tick ran the instruction of this opcode
Ran(opcode) == Executed /\ LastOpcode = opcode

\* the hooks of the frame so far, the NMI calls left out
VblankHooks == SelectSeq(hist.hooks, LAMBDA h : h # "nmi")

\* C21: in each frame of 262 scanlines the driver calls reset_vblank()
\* exactly once, after the CPU work of scanline 0, and set_vblank() exactly
\* once, after the CPU work of scanline 241, strictly alternating across
\* frames; hence the vblank boolean is false while the CPU instructions of
\* scanlines 1..241 execute and true while those of scanlines 242..261
\* execute.
C21_VblankWindow ==
    /\ VblankHooks = IF hist.scanline = 0 THEN <<>>
                     ELSE IF hist.scanline <= 241 THEN <<"reset_vblank">>
                     ELSE <<"reset_vblank", "set_vblank">>
    /\ hist.scanline \in 1..241 => ~ppu.vblank
    /\ hist.scanline \in 242..(SCANLINES_PER_FRAME - 1) => ppu.vblank
    /\ (hist.scanline = 0 /\ hist.frame > 1) => ppu.vblank

\* the second frame, an instruction of scanline 242 just executed: the
\* vblank boolean is true, after having been false during scanline 241
C21_Witness ==
    /\ hist.frame = 2 /\ hist.scanline = 242 /\ hist.tick = 1
    /\ last.op = "tick" /\ last.log # <<>>
    /\ prev.op = "hooks" /\ prev.arg = 241 /\ ~prev.ppu.vblank
    /\ ppu.vblank
    /\ hist.hooks = <<"reset_vblank", "set_vblank">>

\* the NMI calls among the hooks of the frame so far
NmiHooks == SelectSeq(hist.hooks, LAMBDA h : h = "nmi")

\* C22: the driver invokes the CPU's nmi() at most once per frame, only at
\* the scanline-241 boundary immediately after set_vblank() and never in the
\* middle of an instruction, and it does so exactly when should_nmi() is true
\* at that point; an NMI-enable bit written by the program later during the
\* same vblank causes no nmi() call until scanline 241 of the next frame.
C22_NmiAtVblankStart ==
    /\ Len(NmiHooks) <= 1
    /\ \A i \in 1..Len(hist.hooks) :
            hist.hooks[i] = "nmi" => (i > 1 /\ hist.hooks[i - 1] = "set_vblank")
    /\ (last.op = "hooks" /\ last.arg = 241) =>
            IF should_nmi(set_vblank(last.ppu))
            THEN /\ NmiHooks = <<"nmi">>
                 /\ cpu.sp = (last.cpu.sp + 253) % 256
                 /\ ram[StackCell(last.cpu.sp, 0)] = last.cpu.pc \div 256
                 /\ ram[StackCell(last.cpu.sp, 1)] = last.cpu.pc % 256
                 /\ cpu.pc = ram[65530] + 256 * ram[65531]
            ELSE NmiHooks = <<>> /\ cpu = last.cpu
    /\ (last.op = "hooks" /\ last.arg # 241) => cpu = last.cpu
    /\ last.op = "tick" => (cpu.sp = last.cpu.sp \/ Ran(64))
    /\ (hist.enabled[2] >= 242 /\ hist.frame = hist.enabled[1]) => hist.nmis = 0

\* the program that waits for the vblank bit before it enables the NMI: it
\* enabled it in scanline 242 or later of the first frame, no nmi() came in
\* that frame, and the first one comes after scanline 241 of the second
C22_Witness ==
    /\ last.op = "hooks" /\ last.arg = 241 /\ hist.frame = 2
    /\ hist.enabled[1] = 1 /\ hist.enabled[2] >= 242
    /\ hist.hooks = <<"reset_vblank", "set_vblank", "nmi">>
    /\ hist.nmis = 1
    /\ cpu.pc = 36864 /\ last.cpu.pc = 32778


\* C23, as stated: the driver advances the CPU by one instruction for every
\* three PPU ticks: within each 341-tick scanline one CPU instruction is
\* executed at every tick index divisible by 3.
C23_InstructionEveryThirdTick ==
    /\ last.op = "tick" => (Executed <=> last.arg % 3 = 0)
    /\ hist.at = "hooks" =>
            /\ hist.tick = PPU_CYCLES_PER_SCANLINE
            /\ hist.instrs = (PPU_CYCLES_PER_SCANLINE + 2) \div 3

\* C23, amended: within each scanline one CPU instruction is executed at
\* every tick index divisible by 3 for as long as the instructions of the
\* scanline have cost at most 113 (341 div 3) cycles; once they have cost
\* more, the remaining ticks of the scanline are skipped.
C23_InstructionEveryThirdTickInBudget ==
    /\ last.op = "tick" => (Executed <=> last.arg % 3 = 0)
    /\ hist.at = "ticks" =>
            /\ ~OverBudget(cpu.cycles)
            /\ hist.instrs = (hist.tick + 2) \div 3
    /\ hist.at = "hooks" =>
            \/ /\ hist.tick = PPU_CYCLES_PER_SCANLINE
               /\ hist.instrs = (PPU_CYCLES_PER_SCANLINE + 2) \div 3
            \/ /\ OverBudget(cpu.cycles)
               /\ Executed /\ last.arg = hist.tick
               /\ ~OverBudget(last.cpu.cycles)
               /\ hist.instrs = hist.tick \div 3 + 1

\* the spinning program: its 38th JMP of the scanline, at tick 111, brings
\* the cost to 114 cycles and ends the scanline's ticks
C23_Witness ==
    /\ hist.at = "hooks" /\ hist.tick = 111 /\ hist.instrs = 38
    /\ Ran(76)
    /\ cpu.cycles - hist.cycles = 114
    /\ last.cpu.cycles - hist.cycles = 111

\* the scanlines whose instructions have all run
ScanlinesRun ==
    (hist.frame - 1) * SCANLINES_PER_FRAME + hist.scanline
        + (IF hist.at = "hooks" THEN 1 ELSE 0)

\* C37: in the driver loop the CPU instructions executed within one scanline
\* consume at least 114 and at most 121 CPU cycles: execution within the
\* scanline stops as soon as more than 113 cycles have elapsed since the
\* scanline began, the overshoot is not deducted from the next scanline, and
\* the vblank/NMI hooks of that scanline run only after these instructions.
C37_ScanlineCycles ==
    /\ hist.at = "hooks" =>
            /\ cpu.cycles - hist.cycles \in 114..121
            /\ last.op = "tick" /\ last.log # <<>>
            /\ last.cpu.cycles - hist.cycles <= 113
    /\ hist.at = "ticks" => cpu.cycles - hist.cycles <= 113
    /\ (hist.at = "ticks" /\ hist.tick = 0) => cpu.cycles = hist.cycles
    /\ cpu.cycles >= 114 * ScanlinesRun
    /\ last.op = "hooks" =>
            /\ prev.op = "tick" /\ prev.log # <<>>
            /\ cpu.cycles = last.cpu.cycles
            /\ last.cpu.cycles - prev.cpu.cycles \in 2..8
    /\ last.op = "tick" =>
            (ppu.vblank = last.ppu.vblank /\ (cpu.sp = last.cpu.sp \/ Ran(64)))

\* the slow program in a scanline that begins with its JMP: ten rounds of
\* JMP and SLO bring the cost to 113, and the SLO after them to 121
C37_Witness ==
    /\ hist.at = "hooks" /\ Ran(3)
    /\ last.cpu.cycles - hist.cycles = 113
    /\ cpu.cycles - hist.cycles = 121
    /\ hist.instrs = 22

---------------------------------------------------------------------------
(* SpecInstr: steps over every opcode run_instruction has an arm for,      *)
(* placed at 0x8000 with the operand bytes $10 $03, and calls of reset()   *)
(* and nmi() before or after them.  The indexed modes run with X = 0xf5 and *)
(* Y = 0x20; the other modes with every sampled X = Y; the carry, zero,    *)
(* negative and overflow flags start all clear or all set.  hist keeps the *)
(* opcode's instruction and addressing mode, the length of the instruction *)
(* and the effective address the memory was laid out for.                  *)

MaxInstrSteps == 2

InstrBytes == {0, 1, 127, 128, 255}

InstrRegs == {0, 1, 128, 255}

Catalogued == { opcode \in Byte : ~Absent(opcode) }

KindOf(opcode) == OpTable[opcode + 1][1]

ModeOf(opcode) == OpTable[opcode + 1][2]

IndexedModes ==
    {"ZeroPageX", "ZeroPageY", "AbsoluteX", "AbsoluteY", "IndirectIndexed", "IndexedIndirect"}

\* the layouts of an addressing mode: the operand bytes, the pointer bytes
\* the mode reads, and the effective address they give (the operand's own
\* address for Immediate and Relative, none for Implicit and Accumulator);
\* Indirect also has the pointer that ends a page, with different bytes after
\* it and at the start of its page
InstrCases(mode) ==
    CASE mode \in {"Implicit", "Accumulator"} ->
            { [operands |-> <<>>, ptr |-> <<>>, ea |-> 0] }
      [] mode \in {"Immediate", "Relative"} ->
            { [operands |-> <<16>>, ptr |-> <<>>, ea |-> 32769] }
      [] mode = "ZeroPage" ->
            { [operands |-> <<16>>, ptr |-> <<>>, ea |-> 16] }
      [] mode = "ZeroPageX" ->
            { [operands |-> <<16>>, ptr |-> <<>>, ea |-> 5] }
      [] mode = "ZeroPageY" ->
            { [operands |-> <<16>>, ptr |-> <<>>, ea |-> 48] }
      [] mode = "Absolute" ->
            { [operands |-> <<16, 3>>, ptr |-> <<>>, ea |-> 784] }
      [] mode = "AbsoluteX" ->
            { [operands |-> <<16, 3>>, ptr |-> <<>>, ea |-> 1029] }
      [] mode = "AbsoluteY" ->
            { [operands |-> <<16, 3>>, ptr |-> <<>>, ea |-> 816] }
      [] mode = "IndirectIndexed" ->
            { [operands |-> <<16>>, ptr |-> (5 :> 64) @@ (6 :> 2), ea |-> 576] }
      [] mode = "IndexedIndirect" ->
            { [operands |-> <<16>>, ptr |-> (16 :> 64) @@ (17 :> 2), ea |-> 608] }
      [] mode = "Indirect" ->
            { [operands |-> <<16, 3>>, ptr |-> (785 :> 2), ea |-> 784],
              [operands |-> <<255, 3>>, ptr |-> (768 :> 2) @@ (1024 :> 4), ea |-> 1023] }

\* the memory of a case: the instruction at 0x8000, the pointer bytes, value
\* at the effective address, three bytes on the stack above SP = 0xfc for the
\* pulls, the reset vector pointing at the instruction, and the NMI and IRQ
\* vectors pointing at a NOP at 0x9000
InstrMemory(opcode, c, value) ==
    LET code == <<opcode>> \o c.operands
    IN  [k \in {32768 + i - 1 : i \in 1..Len(code)} \cup DOMAIN c.ptr
               \cup {c.ea, 509, 510, 511, 36864} \cup 65530..65535 |->
            IF k = c.ea /\ c.ea # 0 THEN value
            ELSE IF k \in DOMAIN c.ptr THEN c.ptr[k]
            ELSE IF k = 509 THEN value
            ELSE IF k = 510 THEN 16
            ELSE IF k \in {511, 65531, 65535} THEN 144
            ELSE IF k = 65533 THEN 128
            ELSE IF k = 36864 THEN 234
            ELSE IF k \in {0, 65530, 65532, 65534} THEN 0
            ELSE code[k - 32768 + 1]]

InitInstr ==
    /\ \E opcode \in Catalogued, value \in InstrBytes :
        \E c \in InstrCases(ModeOf(opcode)) :
            /\ ram = InstrMemory(opcode, c, value)
            /\ hist = [steps |-> 0,
                       kind |-> KindOf(opcode), mode |-> ModeOf(opcode),
                       ea |-> c.ea, len |-> 1 + Len(c.operands)]
            /\ \E a \in InstrRegs, r \in InstrRegs, k \in BOOLEAN :
                /\ ModeOf(opcode) \in IndexedModes => r = 0
                /\ cpu = [CpuNew EXCEPT
                            !.pc = 32768, !.sp = 252, !.a = a,
                            !.x = IF ModeOf(opcode) \in IndexedModes THEN 245 ELSE r,
                            !.y = IF ModeOf(opcode) \in IndexedModes THEN 32 ELSE r,
                            !.carry_flag = k, !.zero_flag = k,
                            !.negative_flag = k, !.overflow_flag = k]
    /\ InitRest

InstrStep ==
    /\ hist.steps < MaxInstrSteps
    /\ Step
    /\ hist' = [hist EXCEPT !.steps = @ + 1]

\* self.cpu.reset(..) or self.cpu.nmi(..), between instructions
InstrCall ==
    /\ fault = "none"
    /\ hist.steps < MaxInstrSteps
    /\ \E chk \in BOOLEAN, call \in {"reset", "nmi"} :
        \E m \in { IF call = "reset" THEN reset(Machine(chk)) ELSE nmi(Machine(chk)) } :
            /\ Becomes(m)
            /\ last' = Op(call, 0, 0, m)
    /\ prev' = last
    /\ hist' = [hist EXCEPT !.steps = @ + 1]

NextInstr == InstrStep \/ InstrCall

SpecInstr == InitInstr /\ [][NextInstr]_vars

\* the first operation was the step over the instruction at 0x8000, and it
\* is the last one so far
First == last.op = "step" /\ last.cpu.pc = 32768 /\ hist.steps = 1

\* the last step ran the instruction named kind
Did(kind) == First /\ hist.kind = kind

\* the byte the instruction found at its effective address
Operand == last.dev.ram[hist.ea]

\* the register a compare instruction reads, before the step
Compared ==
    CASE hist.kind = "Cmp" -> last.cpu.a
      [] hist.kind = "Cpx" -> last.cpu.x
      [] hist.kind = "Cpy" -> last.cpu.y

\* C24: CMP, CPX and CPY with register value r and operand m set
\* carry = (r >= m), zero = (r = m) and negative = bit 7 of (r - m) mod 256,
\* and change nothing else except PC and the cycle counter: A, X, Y, SP, the
\* other flags and all memory are unchanged.
C24_CompareSetsThreeFlags ==
    (Did("Cmp") \/ Did("Cpx") \/ Did("Cpy")) =>
        /\ fault = "none"
        /\ cpu = [last.cpu EXCEPT
                    !.carry_flag = Compared >= Operand,
                    !.zero_flag = Compared = Operand,
                    !.negative_flag = ((Compared + 256 - Operand) % 256) >= 128,
                    !.pc = @ + hist.len,
                    !.cycles = cpu.cycles]
        /\ cpu.cycles > last.cpu.cycles
        /\ ram = last.dev.ram
        /\ ppu = last.ppu

\* CPX $0310 with X = 0 and 1 in memory, all three flags set before: the
\* difference is 0xff, so carry and zero are cleared and negative stays set
C24_Witness ==
    /\ Did("Cpx") /\ hist.mode = "Absolute"
    /\ last.cpu.x = 0 /\ last.cpu.a = 128 /\ Operand = 1
    /\ last.cpu.carry_flag /\ last.cpu.zero_flag /\ last.cpu.overflow_flag
    /\ ~cpu.carry_flag /\ ~cpu.zero_flag /\ cpu.negative_flag /\ cpu.overflow_flag
    /\ cpu.pc = 32771

Fused == {"Slo", "Rla", "Sre", "Rra", "Dcp", "Isc"}

\* the accesses of the last step to the effective address, in order
AtOperand == SelectSeq(last.log, LAMBDA e : e.addr = hist.ea)

\* how many accesses of the last step went to addr
Touches(addr) == Cardinality({i \in DOMAIN last.log : last.log[i].addr = addr})

\* C25: for each fused opcode (SLO, RLA, SRE, RRA, DCP, ISC) in every
\* addressing mode the catalog gives it, one step resolves the addressing
\* mode once, applies both micro-operations to that same effective address,
\* and advances PC by exactly the instruction length: 2 for the zero-page and
\* zero-page-pointer modes, 3 for the absolute modes.
C25_FusedResolvesOnce ==
    (First /\ hist.kind \in Fused) =>
        /\ fault = "none"
        /\ cpu.pc = last.cpu.pc +
                (IF hist.mode \in {"Absolute", "AbsoluteX", "AbsoluteY"} THEN 3 ELSE 2)
        /\ \A k \in 0..(hist.len - 1) : Touches(last.cpu.pc + k) = 1
        /\ [i \in DOMAIN AtOperand |-> AtOperand[i].kind] = <<"r", "w", "r">>
        /\ AtOperand[3].value = AtOperand[2].value
        /\ \A i \in DOMAIN last.log : last.log[i].kind = "w" => last.log[i].addr = hist.ea
        /\ ram = [last.dev.ram EXCEPT ![hist.ea] = AtOperand[2].value]

\* ISC $0310,X with 0xff in memory: the cell is read, written with 0 and
\* read again, and PC is 0x8003
C25_Witness ==
    /\ Did("Isc") /\ hist.mode = "AbsoluteX"
    /\ Operand = 255 /\ ram[hist.ea] = 0
    /\ Len(AtOperand) = 3
    /\ cpu.pc = 32771

\* the official read-modify-write and accumulator instructions a fused
\* opcode names, run one after the other on addr
Official(kind, m, addr) ==
    CASE kind = "Rla" -> And(RolAddr(m, addr), addr)
      [] kind = "Sre" -> Eor(LsrAddr(m, addr), addr)
      [] kind = "Rra" -> Adc(RorAddr(m, addr), addr)
      [] kind = "Dcp" -> Cmp(Dec(m, addr), addr)
      [] kind = "Isc" -> Sbc(Inc(m, addr), addr)

\* the accumulator, the flags and the byte at the effective address
FusedOut(c, memory) ==
    [ a |-> c.a, cell |-> memory[hist.ea], carry_flag |-> c.carry_flag,
      zero_flag |-> c.zero_flag, negative_flag |-> c.negative_flag,
      overflow_flag |-> c.overflow_flag ]

\* C26: for RLA, SRE, RRA, DCP and ISC the resulting accumulator, memory
\* cell and flags equal those of the official read-modify-write instruction
\* (ROL, LSR, ROR, DEC, INC) followed by the official accumulator instruction
\* (AND, EOR, ADC, CMP, SBC) on the same effective address; RRA adds with the
\* bit its ROR rotated out as carry-in.
C26_FusedIsOfficialPair ==
    (First /\ hist.kind \in Fused \ {"Slo"}) =>
        /\ fault = "none"
        /\ \A ref \in { Official(hist.kind, Before(FALSE), hist.ea) } :
                /\ ref.fault = "none"
                /\ FusedOut(cpu, ram) = FusedOut(ref.cpu, ref.dev.ram)
        /\ Did("Rra") =>
                \A rotated \in { Operand \div 2 + 128 * B2N(last.cpu.carry_flag) } :
                    /\ ram[hist.ea] = rotated
                    /\ AluOut(cpu) = AdcRef(last.cpu.a, rotated, Operand % 2)

\* RRA ($10),Y with A = 0, carry clear and 1 in memory: the rotation leaves 0
\* in memory and rotates a 1 out, and the addition 0 + 0 + 1 makes A = 1
C26_Witness ==
    /\ Did("Rra") /\ hist.mode = "IndexedIndirect"
    /\ last.cpu.a = 0 /\ ~last.cpu.carry_flag /\ Operand = 1
    /\ ram[hist.ea] = 0 /\ cpu.a = 1 /\ ~cpu.carry_flag /\ ~cpu.zero_flag

\* the instructions that set PC themselves
Jumps ==
    {"Jmp", "Jsr", "Rts", "Rti", "Brk",
     "Bne", "Beq", "Bpl", "Bcc", "Bcs", "Bmi", "Bvc", "Bvs"}

\* the operand bytes of an addressing mode
OperandBytes(mode) ==
    CASE mode \in {"Implicit", "Accumulator"} -> 0
      [] mode \in {"Absolute", "AbsoluteX", "AbsoluteY"} -> 2
      [] OTHER -> 1

\* the opcode byte the bus gave the last step
Fetched == Answer(Before(FALSE), "main", last.cpu.pc).v

\* the cost the cycle closure of the last step's opcode gives its mode
StepCost == CycleTable[KindOf(Fetched)][ModeOf(Fetched)]

\* C27: for every catalogued opcode other than JMP, JSR, RTS, RTI, BRK and
\* the branches, one step advances PC by 1 plus the operand bytes of its
\* addressing mode (0 for implicit and accumulator, 1 for immediate,
\* zero-page and zero-page-pointer modes, 2 for absolute modes); every step
\* increases the cycle counter by exactly the catalogued cost of its opcode;
\* reset() and nmi() do not change the cycle counter.
C27_StepAdvancesPcAndCycles ==
    /\ (First /\ hist.kind \notin Jumps) =>
            cpu.pc = last.cpu.pc + 1 + OperandBytes(hist.mode)
    /\ First => fault = "none"
    /\ (last.op = "step" /\ fault = "none") =>
            cpu.cycles = last.cpu.cycles + StepCost
    /\ last.op \in {"reset", "nmi"} =>
            (fault = "none" /\ cpu.cycles = last.cpu.cycles)

\* INC $0310,X took PC to 0x8003 and the counter to 7, and the nmi() after it
\* took PC to the handler and left the counter at 7
C27_Witness ==
    /\ last.op = "nmi" /\ prev.op = "step"
    /\ hist.kind = "Inc" /\ hist.mode = "AbsoluteX"
    /\ prev.cpu.pc = 32768 /\ prev.cpu.cycles = 0
    /\ last.cpu.pc = 32771 /\ last.cpu.cycles = 7
    /\ cpu.pc = 36864 /\ cpu.cycles = 7

WritesA ==
    {"Lda", "Lax", "Txa", "Tya", "Pla", "And", "Ora", "Eor", "Adc", "Sbc",
     "Asl", "Lsr", "Rol", "Ror"}

WritesX == {"Ldx", "Tax", "Tsx", "Incx", "Dex"}

WritesY == {"Ldy", "Tay", "Incy", "Dey"}

WritesMemory == {"Inc", "Dec", "AslAddr", "LsrAddr", "RolAddr", "RorAddr"}

Stores == {"Txs", "Sta", "Stx", "Sty", "Sax"}

\* the value the first instruction wrote, read where it wrote it
Written ==
    CASE hist.kind \in WritesA -> cpu.a
      [] hist.kind \in WritesX -> cpu.x
      [] hist.kind \in WritesY -> cpu.y
      [] hist.kind \in WritesMemory -> ram[hist.ea]

\* what the loads, transfers, increments and decrements write
Moved ==
    CASE hist.kind \in {"Lda", "Ldx", "Ldy", "Lax"} -> Operand
      [] hist.kind = "Pla" -> last.dev.ram[509]
      [] hist.kind \in {"Tax", "Tay"} -> last.cpu.a
      [] hist.kind = "Txa" -> last.cpu.x
      [] hist.kind = "Tya" -> last.cpu.y
      [] hist.kind = "Tsx" -> last.cpu.sp
      [] hist.kind = "Incx" -> (last.cpu.x + 1) % 256
      [] hist.kind = "Incy" -> (last.cpu.y + 1) % 256
      [] hist.kind = "Dex" -> (last.cpu.x + 255) % 256
      [] hist.kind = "Dey" -> (last.cpu.y + 255) % 256
      [] hist.kind = "Inc" -> (Operand + 1) % 256
      [] hist.kind = "Dec" -> (Operand + 255) % 256
      [] OTHER -> Written

\* C28: after any instruction that writes a value to A, X or Y (LDA, LDX,
\* LDY, LAX, TAX, TAY, TXA, TYA, TSX, PLA, AND, ORA, EOR, ADC, SBC, INX, INY,
\* DEX, DEY, accumulator shifts and rotates) or read-modify-writes memory
\* (INC, DEC, ASL, LSR, ROL, ROR), the zero flag equals (written value = 0)
\* and the negative flag equals bit 7 of the written value; TXS and the
\* stores STA, STX, STY, SAX change no flag.
C28_ZeroNegativeFollowResult ==
    /\ (First /\ hist.kind \in WritesA \cup WritesX \cup WritesY \cup WritesMemory) =>
            /\ fault = "none"
            /\ Written = Moved
            /\ hist.kind = "Lax" => cpu.x = cpu.a
            /\ cpu.zero_flag = (Written = 0)
            /\ cpu.negative_flag = (Written >= 128)
    /\ (First /\ hist.kind \in Stores) =>
            /\ fault = "none"
            /\ Flags(cpu) = Flags(last.cpu)

\* DEC $10 on 0 with the zero and negative flags set: 0xff is written, the
\* zero flag is cleared and the negative flag stays set
C28_Witness ==
    /\ Did("Dec") /\ hist.mode = "ZeroPage"
    /\ Operand = 0 /\ ram[16] = 255
    /\ last.cpu.zero_flag /\ last.cpu.negative_flag
    /\ ~cpu.zero_flag /\ cpu.negative_flag

\* the value a shift or rotate worked on, and the one it left
ShiftIn == IF hist.mode = "Accumulator" THEN last.cpu.a ELSE Operand

ShiftOut == IF hist.mode = "Accumulator" THEN cpu.a ELSE ram[hist.ea]

\* C29: for every 8-bit value v and carry-in c, ASL gives (2v) mod 256 with
\* carry = bit 7 of v; LSR gives v div 2 with carry = bit 0 of v; ROL gives
\* ((2v) mod 256) + c with carry = bit 7 of v; ROR gives (v div 2) + 128c
\* with carry = bit 0 of v; the carry comes from the original value and
\* zero/negative from the result, for the accumulator and the memory forms.
C29_ShiftsAndRotates ==
    (First /\ hist.kind \in {"Asl", "AslAddr", "Lsr", "LsrAddr",
                             "Rol", "RolAddr", "Ror", "RorAddr"}) =>
        /\ fault = "none"
        /\ ShiftOut =
                CASE hist.kind \in {"Asl", "AslAddr"} -> (2 * ShiftIn) % 256
                  [] hist.kind \in {"Lsr", "LsrAddr"} -> ShiftIn \div 2
                  [] hist.kind \in {"Rol", "RolAddr"} ->
                        ((2 * ShiftIn) % 256) + B2N(last.cpu.carry_flag)
                  [] hist.kind \in {"Ror", "RorAddr"} ->
                        (ShiftIn \div 2) + 128 * B2N(last.cpu.carry_flag)
        /\ cpu.carry_flag =
                IF hist.kind \in {"Asl", "AslAddr", "Rol", "RolAddr"}
                THEN ShiftIn >= 128
                ELSE ShiftIn % 2 = 1
        /\ cpu.zero_flag = (ShiftOut = 0)
        /\ cpu.negative_flag = (ShiftOut >= 128)
        /\ hist.mode = "Accumulator" => ram = last.dev.ram
        /\ hist.mode # "Accumulator" => cpu.a = last.cpu.a

\* ROR $0310,X on 1 with the carry set: memory becomes 0x80, the carry stays
\* set from bit 0, and the negative flag is set from the result
C29_Witness ==
    /\ Did("RorAddr") /\ hist.mode = "AbsoluteX"
    /\ Operand = 1 /\ last.cpu.carry_flag
    /\ ram[hist.ea] = 128 /\ cpu.carry_flag /\ cpu.negative_flag /\ ~cpu.zero_flag

\* the pointer operand of the first instruction
Pointer == last.dev.ram[32769] + 256 * last.dev.ram[32770]

\* where the 6502 reads the high byte of the target of JMP (p): in p's page
SamePageNext(p) == (p \div 256) * 256 + ((p + 1) % 256)

\* C30: JMP indirect through a pointer p takes the target low byte from p and
\* the target high byte from (p AND 0xFF00) OR ((p + 1) AND 0x00FF), so when
\* the low byte of p is 0xFF the high byte comes from the start of the same
\* page rather than from p + 1.
C30_JmpIndirectPageWrap ==
    (Did("Jmp") /\ hist.mode = "Indirect") =>
        /\ fault = "none"
        /\ cpu.pc = last.dev.ram[Pointer] + 256 * last.dev.ram[SamePageNext(Pointer)]

\* the writes of the last operation, in order
Writes == SelectSeq(last.log, LAMBDA e : e.kind = "w")

\* the last operation pushed a status byte: PHP, BRK or nmi()
PushedStatus ==
    \/ last.op = "nmi"
    \/ last.op = "step" /\ fault = "none" /\ KindOf(Fetched) \in {"Php", "Brk"}

\* C32: the reserved flag is 1 in every reachable CPU state, from
\* construction through any sequence of instructions (PLP and RTI included),
\* reset() and nmi(); consequently every status byte pushed to the stack by
\* PHP, BRK or nmi() has bit 5 set.
C32_ReservedAlwaysSet ==
    /\ cpu.reserved_flag
    /\ PushedStatus => BitAt(Writes[Len(Writes)].value, 5) = 1

AccumulatorReads == {"Lda", "And", "Ora", "Eor", "Adc", "Sbc", "Cmp", "Lax"}

\* C35: cycle costs are consistent per addressing mode across the
\* accumulator-read instructions: every one of LDA, AND, ORA, EOR, ADC, SBC,
\* CMP and LAX is charged 6 cycles for its (zp,X) opcode (0xA1, 0x21, 0x01,
\* 0x41, 0x61, 0xE1, 0xC1, 0xA3) and 5 cycles for its (zp),Y opcode (0xB1,
\* 0x31, 0x11, 0x51, 0x71, 0xF1, 0xD1, 0xB3).
C35_PointerModeCosts ==
    (First /\ hist.kind \in AccumulatorReads) =>
        /\ Fetched \in {161, 33, 1, 65, 97, 225, 193, 163} =>
                cpu.cycles = last.cpu.cycles + 6
        /\ Fetched \in {177, 49, 17, 81, 113, 241, 209, 179} =>
                cpu.cycles = last.cpu.cycles + 5

\* C36: for every opcode the catalog maps to an (operation, addressing mode)
\* pair, that operation's cycle table defines a cost for that addressing
\* mode, so stepping a catalogued opcode never reaches the unimplemented
\* path, neither before nor after its side effects have been applied.
C36_CataloguedOpcodesArePriced ==
    /\ (last.op = "step" /\ Fetched \in Catalogued) =>
            fault \notin {"unimplemented_mode", "unimplemented_opcode"}
    /\ First =>
            /\ fault = "none"
            /\ HasCycles(hist.kind, hist.mode)
            /\ cpu.cycles > last.cpu.cycles

\* SAX ($10,X) stored A AND X at 0x0240 and was charged its 6 cycles
C36_Witness ==
    /\ Did("Sax") /\ hist.mode = "IndirectIndexed"
    /\ last.cpu.a = 255
    /\ ram[576] = 245
    /\ cpu.cycles = 6
    /\ fault = "none"

---------------------------------------------------------------------------
(* SpecPointer: one step over every opcode of the (zp,X) and (zp),Y modes, *)
(* with the zero-page pointer at 0x10 or at 0xff, the last byte of the     *)
(* page.  The pointer's low byte is 0x40; the byte after it in zero page   *)
(* (0x11, or 0x00 for the pointer at 0xff) is 0x02 and the byte at 0x0100  *)
(* is 0x04.  X = 0xf5 and Y = 0x20.  hist keeps the pointer location z and *)
(* the effective address the 6502 computes from the zero-page bytes.       *)

MaxPointerSteps == 1

PointerModes == {"IndirectIndexed", "IndexedIndirect"}

PointerSpots == {16, 255}

\* the layout of a pointer mode with its pointer at z: run_with resolves
\* IndirectIndexed with Cpu::inx, which adds X to the operand, and
\* IndexedIndirect with Cpu::iny, which adds Y to the pointer
PointerCase(mode, z) ==
    [ operands |-> IF mode = "IndirectIndexed" THEN << (z + 256 - 245) % 256 >> ELSE << z >>,
      ptr |-> (z :> 64) @@ (((z + 1) % 256) :> 2) @@ (256 :> 4)
              @@ (IF mode = "IndirectIndexed" THEN (1088 :> 9) ELSE (1120 :> 9)),
      ea |-> IF mode = "IndirectIndexed" THEN 576 ELSE 608 ]

InitPointer ==
    /\ \E opcode \in Catalogued, z \in PointerSpots, value \in InstrBytes :
        /\ ModeOf(opcode) \in PointerModes
        /\ ram = InstrMemory(opcode, PointerCase(ModeOf(opcode), z), value)
        /\ hist = [steps |-> 0, kind |-> KindOf(opcode), mode |-> ModeOf(opcode),
                   z |-> z, ea |-> PointerCase(ModeOf(opcode), z).ea]
    /\ cpu \in { [CpuNew EXCEPT !.pc = 32768, !.sp = 252, !.x = 245, !.y = 32,
                                !.a = a, !.carry_flag = k] :
                    a \in InstrRegs, k \in BOOLEAN }
    /\ InitRest

PointerStep ==
    /\ hist.steps < MaxPointerSteps
    /\ Step
    /\ hist' = [hist EXCEPT !.steps = @ + 1]

NextPointer == PointerStep

SpecPointer == InitPointer /\ [][NextPointer]_vars

\* the addresses the last step read, in order
ReadAddrs ==
    [i \in DOMAIN SelectSeq(last.log, LAMBDA e : e.kind = "r") |->
        SelectSeq(last.log, LAMBDA e : e.kind = "r")[i].addr]

\* the last step read addr
Reads(addr) == \E i \in DOMAIN ReadAddrs : ReadAddrs[i] = addr

\* C31: for the (zp,X) and (zp),Y modes both bytes of the pointer are
\* fetched from zero page: with the pointer at z = (operand + X) mod 256 for
\* (zp,X) or z = operand for (zp),Y, the low byte is read from z and the
\* high byte from (z + 1) mod 256, so for z = 0xFF the high byte is read
\* from 0x0000 and address 0x0100 is never read.
C31_PointerBytesFromZeroPage ==
    (last.op = "step" /\ hist.steps = 1) =>
        /\ fault = "none"
        /\ Reads(hist.z)
        /\ Reads((hist.z + 1) % 256)
        /\ ~Reads(256)
        /\ \E i \in DOMAIN last.log : last.log[i].addr = hist.ea

---------------------------------------------------------------------------
(* SpecStatus: status_to_word and word_to_status called on a Cpu with any  *)
(* combination of the eight flags, and PHP; PLP stepped from it.           *)

MaxStatusOps == 2

\* the eight flags of a Cpu, in the order of its fields
FlagList(c) ==
    <<c.carry_flag, c.zero_flag, c.interrupt_flag, c.decimal_flag,
      c.break_cmd_flag, c.reserved_flag, c.overflow_flag, c.negative_flag>>

\* PHP; PLP at 0x8000
InitStatus ==
    /\ \E f \in [1..8 -> BOOLEAN] :
        cpu = [CpuNew EXCEPT !.pc = 32768,
                             !.carry_flag = f[1], !.zero_flag = f[2],
                             !.interrupt_flag = f[3], !.decimal_flag = f[4],
                             !.break_cmd_flag = f[5], !.reserved_flag = f[6],
                             !.overflow_flag = f[7], !.negative_flag = f[8]]
    /\ ram = (32768 :> 8) @@ (32769 :> 40)
    /\ hist = [steps |-> 0]
    /\ InitRest

StatusToWordOp ==
    /\ fault = "none"
    /\ hist.steps < MaxStatusOps
    /\ \E chk \in BOOLEAN :
        \E m \in { Machine(chk) } :
            /\ Becomes(m)
            /\ last' = Op("status_to_word", 0, status_to_word(m.cpu), m)
    /\ prev' = last
    /\ hist' = [hist EXCEPT !.steps = @ + 1]

\* the word unpacked is any byte, or the word status_to_word has just packed
WordToStatusOp ==
    /\ fault = "none"
    /\ hist.steps < MaxStatusOps
    /\ hist.steps = 0 \/ last.op = "status_to_word"
    /\ \E chk \in BOOLEAN :
        \E word \in (IF last.op = "status_to_word" THEN {last.ret} ELSE Byte) :
            \E m \in { word_to_status(Machine(chk), word) } :
                /\ Becomes(m)
                /\ last' = Op("word_to_status", word, 0, m)
    /\ prev' = last
    /\ hist' = [hist EXCEPT !.steps = @ + 1]

StatusStep ==
    /\ hist.steps < MaxStatusOps
    /\ Step
    /\ hist' = [hist EXCEPT !.steps = @ + 1]

NextStatus == StatusToWordOp \/ WordToStatusOp \/ StatusStep

SpecStatus == InitStatus /\ [][NextStatus]_vars

\* C39: status_to_word and word_to_status are mutually inverse with bit order
\* carry, zero, interrupt-disable, decimal, break, reserved, overflow,
\* negative from bit 0 to bit 7: unpacking any byte and repacking yields that
\* byte, and packing then unpacking restores all eight flags; hence PHP
\* followed by PLP restores carry, zero, interrupt-disable, decimal, overflow
\* and negative to their values before the PHP.
C39_StatusWordRoundTrip ==
    /\ last.op = "status_to_word" =>
            /\ \A i \in 1..8 : BitAt(last.ret, i - 1) = B2N(FlagList(last.cpu)[i])
            /\ prev.op = "word_to_status" => last.ret = prev.arg
    /\ last.op = "word_to_status" =>
            /\ \A i \in 1..8 : FlagList(cpu)[i] = (BitAt(last.arg, i - 1) = 1)
            /\ prev.op = "status_to_word" => FlagList(cpu) = FlagList(prev.cpu)
    /\ (Stepped(40) /\ prev.op = "step" /\ fault = "none") =>
            /\ \A i \in {1, 2, 3, 4, 7, 8} : FlagList(cpu)[i] = FlagList(prev.cpu)[i]
            /\ cpu.sp = prev.cpu.sp

\* PHP; PLP with carry, decimal and negative set and every other flag clear:
\* the three come back, and so do the cleared zero, interrupt-disable and
\* overflow, while break and reserved come back set
C39_Witness ==
    /\ Stepped(40) /\ prev.op = "step" /\ fault = "none"
    /\ FlagList(prev.cpu) = <<TRUE, FALSE, FALSE, TRUE, FALSE, FALSE, FALSE, TRUE>>
    /\ ram[511] = 185
    /\ FlagList(cpu) = <<TRUE, FALSE, FALSE, TRUE, TRUE, TRUE, FALSE, TRUE>>

===========================================================================
